---- MODULE Spec2Model ----
(***************************************************************************)
(* Model of the vending machine of src/03-vending-machine/                 *)
(* vending_machine.py: Product, Inventory, the three State classes, the    *)
(* Command objects and the VendingMachine facade.                          *)
(*                                                                         *)
(* Money.  The program keeps balance, total_amount and prices as Decimal   *)
(* values quantized to 0.01; they are modelled as integers counting cents. *)
(* The float arguments of insert_money and Product are modelled as         *)
(* integers counting thousandths (mills), so that the quantization         *)
(* Decimal(str(x)).quantize(Decimal('0.01'), ROUND_HALF_UP) is a real      *)
(* conversion: 4 mills -> 0 cents, 5 mills -> 1 cent, 14 mills -> 1 cent.  *)
(*                                                                         *)
(* The module also models the library of src/02-library-management/        *)
(* library.py (Book, Member, Loan, Library) as a second, independent       *)
(* machine with its own variables and its own specification SpecLibrary.   *)
(***************************************************************************)
EXTENDS Integers, Sequences, FiniteSets, TLC

\* ------------------------------------------------------------------ bounds
\* Largest balance (cents) an insert_money may build up.
MaxBalance == 2
\* Largest lifetime revenue (cents) a sale may build up.
MaxRevenue == 2
\* Largest stock count an add_product may build up.
MaxStock == 2
\* Longest run of inserts since Idle whose sum is followed.
MaxTracked == 2
\* Library: the number of Loan objects ever created.
MaxLoans == 4
\* Library: the number of loans ever closed (the length of historic_loans).
MaxHistory == 1
\* Library: the last day (counted from the first day) the clock reaches.
MaxDay == 15
\* Library over several days: the number of loans ever closed.
MaxClosed == 2
\* ATM: the number of transactions an account records.
MaxTransactions == 2
\* Coffee machine: the number of successful refills.
MaxRefills == 1
\* Parking lot: the number of tickets ever issued.
MaxTickets == 4
\* Parking lot over time: the number of tickets ever issued.
MaxTimedTickets == 3
\* Single-level parking lot: the number of tickets ever closed.
MaxClosedTickets == 1
\* Audit of the vending machine: the money (cents) accepted by insert_money.
MaxInserted == 3
\* Audit of the vending machine: the units of one code added by add_product.
MaxAdded == 1

\* ------------------------------------------------------------------ inputs
\* Arguments of insert_money, in mills: 0.014, 0.005, 0.004, 0 and -0.01,
\* tried in this order.
AmountList == <<14, 5, 4, 0, -10>>
Amounts == {AmountList[i] : i \in DOMAIN AmountList}
\* Arguments <<name, price, code>> of Product(...); prices in mills.
ProductArgs ==
    { <<"Coke", 14, "A1">>, <<"Coke", 4, "A1">>, <<"Sprite", 14, "A1">>,
      <<"Water", 14, "B1">>, <<"Free", 0, "B1">>, <<"Debt", -10, "B1">> }
\* Codes a customer may key in: "Z9" is never stocked.
SelectCodes == {"A1", "B1", "Z9"}
\* Arguments quantity of add_product.
Quantities == {-1, 0, 1, 2}

VARIABLES
    balance,        \* VendingMachine.balance, cents
    total_amount,   \* VendingMachine.total_amount, cents
    state,          \* VendingMachine.state: "idle", "has_money", "dispensing"
    stock,          \* Inventory._stock: code |-> [key |-> Product, qty |-> int]
    session,        \* observer: the inserts accepted since the machine was Idle
    call,           \* observer: the last call, its arguments, result and pre-state
    in_sale,        \* the product of the select_product call that is at its dispense step
    ledger,         \* observer: the money accepted and returned and the units added so far
    callers,        \* the callers inside select_product: position, locals and last result
    members,        \* Library.members: member id |-> Member
    books,          \* Library.books: book id |-> Book
    active_loans,   \* Library.active_loans: book id |-> Loan
    historic_loans, \* Library.historic_loans: list of Loan
    outstanding_fees, \* Member.outstanding_fees of every Member object, cents
    today,          \* date.today(), in days from the first day
    issued,         \* observer: every Loan object created
    lcall,          \* observer: the last library call, its result and pre-state
    accounts,       \* ATMMachine.accounts: account_code |-> Account
    acall,          \* observer: the last ATM call, its result and pre-state
    quantity_available, \* Ingredient.quantity_available of the machine's ingredients
    refills,        \* observer: the number of successful refills
    ccall,          \* observer: the last coffee machine call, its result and pre-state
    levels,         \* ParkingLot.levels: list of Level, each its list of ParkingSpot
    tickets,        \* ParkingLot.tickets: ticket_id |-> ParkingTicket
    ticket_counter, \* ParkingLot._ticket_counter
    pcall,          \* observer: the last parking lot call, its result and pre-state
    clock,          \* datetime.now() of the parking lot, in seconds from its construction
    entry_time,     \* ParkingTicket.entry_time of the tickets in ParkingLot.tickets
    tcall,          \* observer: entry_time, exit_time and fee of the last exit_vehicle
    lot_spots,      \* 01-parking-lot ParkingLot.spots: the ParkingSpot objects, in the order of the dict
    open_tickets,   \* 01-parking-lot ParkingLot.open_tickets: license plate |-> ParkingTicket
    close_tickets,  \* 01-parking-lot ParkingLot.close_tickets: list of ParkingTicket
    is_available,   \* ParkingSpot.is_available of every ParkingSpot object
    ticket_count,   \* observer: the number of ParkingTicket objects created
    scall           \* observer: the last call of the single-level lot, its result and pre-state

vmVars == <<balance, total_amount, state, stock, session, call, in_sale, ledger, callers>>
libVars == <<members, books, active_loans, historic_loans, outstanding_fees,
             today, issued, lcall>>
atmVars == <<accounts, acall>>
coffeeVars == <<quantity_available, refills, ccall>>
lotVars == <<levels, tickets, ticket_counter, pcall, clock, entry_time, tcall>>
parkVars == <<lot_spots, open_tickets, close_tickets, is_available, ticket_count, scall>>
vars == <<vmVars, libVars, atmVars, coffeeVars, lotVars, parkVars>>

\* ------------------------------------------------------------- python glue
\* Decimal(str(x)).quantize(Decimal('0.01'), ROUND_HALF_UP): mills to cents,
\* ties away from zero.
Quantize(x) ==
    IF x >= 0 THEN (x + 5) \div 10 ELSE 0 - ((5 - x) \div 10)

\* A call that raises: the machine as mutated so far, the exception class.
Raise(m, err) == [m |-> m, outcome |-> err, ret |-> <<>>]
\* A call that returns the tuple ret.
Return(m, ret) == [m |-> m, outcome |-> "ok", ret |-> ret]

\* ----------------------------------------------------------------- Product
\* get_product's None.
NoProduct == [name |-> "None", price |-> 0, code |-> "None"]

\* Product.__init__: <<>> when it raises ValueError, else <<the product>>.
Product_init(name, price, code) ==
    IF price <= 0
    THEN <<>>
    ELSE <<[name |-> name, price |-> Quantize(price), code |-> code]>>

\* --------------------------------------------------------------- Inventory
\* Inventory.__init__: the empty dict.  Product.__eq__/__hash__ compare the
\* code only, so the dict has one slot per code, holding the key object first
\* inserted and its count.
EmptyStock == [c \in {} |-> [key |-> NoProduct, qty |-> 0]]

\* Mutant: an assignment through an equal key replaces the stored key object.
DictSet_ReplacesKey(inv, product, v) ==
    [c \in DOMAIN inv \cup {product.code} |->
        IF c = product.code THEN [key |-> product, qty |-> v] ELSE inv[c]]

\* dict.__setitem__ on _stock: an equal key keeps the stored key object.
DictSet(inv, product, v) ==
    IF product.code \in DOMAIN inv
    THEN [inv EXCEPT ![product.code].qty = v]
    ELSE [c \in DOMAIN inv \cup {product.code} |->
            IF c = product.code THEN [key |-> product, qty |-> v] ELSE inv[c]]

Inventory_get_product(inv, code) ==
    IF code \in DOMAIN inv THEN inv[code].key ELSE NoProduct

Inventory_get_product_stock(inv, product) ==
    IF product.code \in DOMAIN inv THEN inv[product.code].qty ELSE 0

Inventory_has_stock(inv, product) ==
    Inventory_get_product_stock(inv, product) > 0

\* Mutant: the name of the stored entry is not compared, so a product of
\* another name is merged into the count of the code.
Inventory_add_product_NoNameCheck(inv, product, quantity) ==
    IF quantity <= 0
    THEN [inv |-> inv, outcome |-> "ValueError", ret |-> <<>>]
    ELSE LET inv2 == DictSet(inv, product,
                             Inventory_get_product_stock(inv, product) + quantity)
         IN [inv |-> inv2, outcome |-> "ok",
             ret |-> <<product, Inventory_get_product_stock(inv2, product)>>]

\* Mutant: the quantity check lets 0 through.
Inventory_add_product_AcceptsZero(inv, product, quantity) ==
    IF quantity < 0
    THEN [inv |-> inv, outcome |-> "ValueError", ret |-> <<>>]
    ELSE LET product_in_stock == Inventory_get_product(inv, product.code) IN
         IF product_in_stock # NoProduct /\ product.name # product_in_stock.name
         THEN [inv |-> inv, outcome |-> "ProductCodeAlreadyUsedError", ret |-> <<>>]
         ELSE LET inv2 == DictSet(inv, product,
                                  Inventory_get_product_stock(inv, product) + quantity)
              IN [inv |-> inv2, outcome |-> "ok",
                  ret |-> <<product, Inventory_get_product_stock(inv2, product)>>]

\* Mutant: the count is set to the quantity instead of raised by it.
Inventory_add_product_SetsCount(inv, product, quantity) ==
    IF quantity <= 0
    THEN [inv |-> inv, outcome |-> "ValueError", ret |-> <<>>]
    ELSE LET product_in_stock == Inventory_get_product(inv, product.code) IN
         IF product_in_stock # NoProduct /\ product.name # product_in_stock.name
         THEN [inv |-> inv, outcome |-> "ProductCodeAlreadyUsedError", ret |-> <<>>]
         ELSE LET inv2 == DictSet(inv, product, quantity)
              IN [inv |-> inv2, outcome |-> "ok",
                  ret |-> <<product, Inventory_get_product_stock(inv2, product)>>]

\* Inventory.add_product: [inv, outcome, ret].
Inventory_add_product(inv, product, quantity) ==
    IF quantity <= 0
    THEN [inv |-> inv, outcome |-> "ValueError", ret |-> <<>>]
    ELSE LET product_in_stock == Inventory_get_product(inv, product.code) IN
         IF product_in_stock # NoProduct /\ product.name # product_in_stock.name
         THEN [inv |-> inv, outcome |-> "ProductCodeAlreadyUsedError", ret |-> <<>>]
         ELSE LET inv2 == DictSet(inv, product,
                                  Inventory_get_product_stock(inv, product) + quantity)
              IN [inv |-> inv2, outcome |-> "ok",
                  ret |-> <<product, Inventory_get_product_stock(inv2, product)>>]

\* Mutant: dispense_product does not look at the count first.
Inventory_dispense_product_NoCheck(inv, product) ==
    LET inv2 == DictSet(inv, product,
                        Inventory_get_product_stock(inv, product) - 1)
    IN [inv |-> inv2, outcome |-> "ok",
        ret |-> <<product, Inventory_get_product_stock(inv2, product)>>]

\* Mutant: dispense_product takes two units off the count.
Inventory_dispense_product_Twice(inv, product) ==
    IF ~Inventory_has_stock(inv, product)
    THEN [inv |-> inv, outcome |-> "OutOfStockError", ret |-> <<>>]
    ELSE LET inv2 == DictSet(inv, product,
                             Inventory_get_product_stock(inv, product) - 2)
         IN [inv |-> inv2, outcome |-> "ok",
             ret |-> <<product, Inventory_get_product_stock(inv2, product)>>]

\* Mutant: dispense_product wants two units in stock.
Inventory_dispense_product_NeedsTwo(inv, product) ==
    IF Inventory_get_product_stock(inv, product) < 2
    THEN [inv |-> inv, outcome |-> "OutOfStockError", ret |-> <<>>]
    ELSE LET inv2 == DictSet(inv, product,
                             Inventory_get_product_stock(inv, product) - 1)
         IN [inv |-> inv2, outcome |-> "ok",
             ret |-> <<product, Inventory_get_product_stock(inv2, product)>>]

\* Inventory.dispense_product: [inv, outcome, ret].
Inventory_dispense_product(inv, product) ==
    IF ~Inventory_has_stock(inv, product)
    THEN [inv |-> inv, outcome |-> "OutOfStockError", ret |-> <<>>]
    ELSE LET inv2 == DictSet(inv, product,
                             Inventory_get_product_stock(inv, product) - 1)
         IN [inv |-> inv2, outcome |-> "ok",
             ret |-> <<product, Inventory_get_product_stock(inv2, product)>>]

\* ------------------------------------------------------------------ states
\* The machine a handler works on: the fields of VendingMachine.
Machine ==
    [balance |-> balance, total_amount |-> total_amount,
     state |-> state, stock |-> stock]

\* Mutant: Idle takes the money but stays Idle.
IdleState_insert_money_StaysIdle(m, amount) ==
    IF amount <= 0
    THEN Raise(m, "ValueError")
    ELSE LET m2 == [m EXCEPT !.balance = Quantize(amount)]
         IN Return(m2, <<m2.balance>>)

IdleState_insert_money(m, amount) ==
    IF amount <= 0
    THEN Raise(m, "ValueError")
    ELSE LET m2 == [m EXCEPT !.balance = Quantize(amount),
                             !.state = "has_money"]
         IN Return(m2, <<m2.balance>>)

\* Mutant: Idle looks the code up before it rejects the selection.
IdleState_select_product_LookupFirst(m, code) ==
    IF Inventory_get_product(m.stock, code) = NoProduct
    THEN Raise(m, "ProductNotFoundError")
    ELSE Raise(m, "InvalidStateError")

IdleState_select_product(m, code) == Raise(m, "InvalidStateError")

IdleState_cancel(m) == Raise(m, "InvalidStateError")

\* Mutant: the amount check lets 0 through.
HasMoneyState_insert_money_AcceptsZero(m, amount) ==
    IF amount < 0
    THEN Raise(m, "ValueError")
    ELSE LET m2 == [m EXCEPT !.balance = m.balance + Quantize(amount)]
         IN Return(m2, <<m2.balance>>)

\* Mutant: the balance is overwritten, as in IdleState, instead of added to.
HasMoneyState_insert_money_Overwrites(m, amount) ==
    IF amount <= 0
    THEN Raise(m, "ValueError")
    ELSE LET m2 == [m EXCEPT !.balance = Quantize(amount)]
         IN Return(m2, <<m2.balance>>)

HasMoneyState_insert_money(m, amount) ==
    IF amount <= 0
    THEN Raise(m, "ValueError")
    ELSE LET m2 == [m EXCEPT !.balance = m.balance + Quantize(amount)]
         IN Return(m2, <<m2.balance>>)

\* Mutant: the machine enters Dispensing before the checks, so a rejected
\* selection leaves it there.
HasMoneyState_select_product_DispensingFirst(m, code) ==
    LET m1 == [m EXCEPT !.state = "dispensing"]
        product == Inventory_get_product(m1.stock, code) IN
    IF product = NoProduct
    THEN Raise(m1, "ProductNotFoundError")
    ELSE IF ~Inventory_has_stock(m1.stock, product)
    THEN Raise(m1, "OutOfStockError")
    ELSE IF m1.balance < product.price
    THEN Raise(m1, "InsufficientFundsError")
    ELSE LET d == Inventory_dispense_product(m1.stock, product)
         IN IF d.outcome # "ok"
            THEN Raise(m1, d.outcome)
            ELSE LET change == m1.balance - product.price
                     m2 == [m1 EXCEPT !.stock = d.inv,
                                      !.total_amount = m1.total_amount + product.price,
                                      !.balance = 0,
                                      !.state = "idle"]
                 IN Return(m2, <<product, change>>)

\* Mutant: the whole balance is booked as revenue, the change with it.
HasMoneyState_select_product_KeepsChange(m, code) ==
    LET product == Inventory_get_product(m.stock, code) IN
    IF product = NoProduct
    THEN Raise(m, "ProductNotFoundError")
    ELSE IF ~Inventory_has_stock(m.stock, product)
    THEN Raise(m, "OutOfStockError")
    ELSE IF m.balance < product.price
    THEN Raise(m, "InsufficientFundsError")
    ELSE LET m1 == [m EXCEPT !.state = "dispensing"]
             d  == Inventory_dispense_product(m1.stock, product)
         IN IF d.outcome # "ok"
            THEN Raise(m1, d.outcome)
            ELSE LET change == m1.balance - product.price
                     m2 == [m1 EXCEPT !.stock = d.inv,
                                      !.total_amount = m1.total_amount + m1.balance,
                                      !.balance = 0,
                                      !.state = "idle"]
                 IN Return(m2, <<product, change>>)

\* Mutant: the funds check comes before the stock check.
HasMoneyState_select_product_FundsFirst(m, code) ==
    LET product == Inventory_get_product(m.stock, code) IN
    IF product = NoProduct
    THEN Raise(m, "ProductNotFoundError")
    ELSE IF m.balance < product.price
    THEN Raise(m, "InsufficientFundsError")
    ELSE IF ~Inventory_has_stock(m.stock, product)
    THEN Raise(m, "OutOfStockError")
    ELSE LET m1 == [m EXCEPT !.state = "dispensing"]
             d  == Inventory_dispense_product(m1.stock, product)
         IN IF d.outcome # "ok"
            THEN Raise(m1, d.outcome)
            ELSE LET change == m1.balance - product.price
                     m2 == [m1 EXCEPT !.stock = d.inv,
                                      !.total_amount = m1.total_amount + product.price,
                                      !.balance = 0,
                                      !.state = "idle"]
                 IN Return(m2, <<product, change>>)

\* Mutant: the state is not set back to idle_state after the sale.
HasMoneyState_select_product_StaysDispensing(m, code) ==
    LET product == Inventory_get_product(m.stock, code) IN
    IF product = NoProduct
    THEN Raise(m, "ProductNotFoundError")
    ELSE IF ~Inventory_has_stock(m.stock, product)
    THEN Raise(m, "OutOfStockError")
    ELSE IF m.balance < product.price
    THEN Raise(m, "InsufficientFundsError")
    ELSE LET m1 == [m EXCEPT !.state = "dispensing"]
             d  == Inventory_dispense_product(m1.stock, product)
         IN IF d.outcome # "ok"
            THEN Raise(m1, d.outcome)
            ELSE LET change == m1.balance - product.price
                     m2 == [m1 EXCEPT !.stock = d.inv,
                                      !.total_amount = m1.total_amount + product.price,
                                      !.balance = 0]
                 IN Return(m2, <<product, change>>)

\* Mutant: the change stays in the machine as the balance of the Idle state.
HasMoneyState_select_product_LeavesChange(m, code) ==
    LET product == Inventory_get_product(m.stock, code) IN
    IF product = NoProduct
    THEN Raise(m, "ProductNotFoundError")
    ELSE IF ~Inventory_has_stock(m.stock, product)
    THEN Raise(m, "OutOfStockError")
    ELSE IF m.balance < product.price
    THEN Raise(m, "InsufficientFundsError")
    ELSE LET m1 == [m EXCEPT !.state = "dispensing"]
             d  == Inventory_dispense_product(m1.stock, product)
         IN IF d.outcome # "ok"
            THEN Raise(m1, d.outcome)
            ELSE LET change == m1.balance - product.price
                     m2 == [m1 EXCEPT !.stock = d.inv,
                                      !.total_amount = m1.total_amount + product.price,
                                      !.balance = change,
                                      !.state = "idle"]
                 IN Return(m2, <<product, change>>)

\* Mutant: the price of the unit sold is not added to the revenue.
HasMoneyState_select_product_NoRevenue(m, code) ==
    LET product == Inventory_get_product(m.stock, code) IN
    IF product = NoProduct
    THEN Raise(m, "ProductNotFoundError")
    ELSE IF ~Inventory_has_stock(m.stock, product)
    THEN Raise(m, "OutOfStockError")
    ELSE IF m.balance < product.price
    THEN Raise(m, "InsufficientFundsError")
    ELSE LET m1 == [m EXCEPT !.state = "dispensing"]
             d  == Inventory_dispense_product(m1.stock, product)
         IN IF d.outcome # "ok"
            THEN Raise(m1, d.outcome)
            ELSE LET change == m1.balance - product.price
                     m2 == [m1 EXCEPT !.stock = d.inv,
                                      !.balance = 0,
                                      !.state = "idle"]
                 IN Return(m2, <<product, change>>)

HasMoneyState_select_product(m, code) ==
    LET product == Inventory_get_product(m.stock, code) IN
    IF product = NoProduct
    THEN Raise(m, "ProductNotFoundError")
    ELSE IF ~Inventory_has_stock(m.stock, product)
    THEN Raise(m, "OutOfStockError")
    ELSE IF m.balance < product.price
    THEN Raise(m, "InsufficientFundsError")
    ELSE LET m1 == [m EXCEPT !.state = "dispensing"]
             d  == Inventory_dispense_product(m1.stock, product)
         IN IF d.outcome # "ok"
            THEN Raise(m1, d.outcome)
            ELSE LET change == m1.balance - product.price
                     m2 == [m1 EXCEPT !.stock = d.inv,
                                      !.total_amount = m1.total_amount + product.price,
                                      !.balance = 0,
                                      !.state = "idle"]
                 IN Return(m2, <<product, change>>)

\* Mutant: the refund is taken out of the lifetime revenue.
HasMoneyState_cancel_DebitsRevenue(m) ==
    LET money_back == m.balance
        m2 == [m EXCEPT !.balance = 0,
                        !.total_amount = m.total_amount - m.balance]
    IN Return(m2, <<money_back>>)

\* Mutant: the refund is returned and the balance kept.
HasMoneyState_cancel_KeepsBalance(m) ==
    LET money_back == m.balance
    IN Return(m, <<money_back>>)

HasMoneyState_cancel(m) ==
    LET money_back == m.balance
        m2 == [m EXCEPT !.balance = 0]
    IN Return(m2, <<money_back>>)

\* HasMoneyState.select_product up to "self.machine.state =
\* self.machine.dispensing_state": the checks, then the state.
HasMoneyState_select_product_enter(m, code) ==
    LET product == Inventory_get_product(m.stock, code) IN
    IF product = NoProduct
    THEN Raise(m, "ProductNotFoundError")
    ELSE IF ~Inventory_has_stock(m.stock, product)
    THEN Raise(m, "OutOfStockError")
    ELSE IF m.balance < product.price
    THEN Raise(m, "InsufficientFundsError")
    ELSE [m |-> [m EXCEPT !.state = "dispensing"], outcome |-> "dispensing",
          ret |-> <<product>>]

\* HasMoneyState.select_product from "self.machine.inventory
\* .dispense_product(product)" on.
HasMoneyState_select_product_leave(m1, product) ==
    LET d == Inventory_dispense_product(m1.stock, product) IN
    IF d.outcome # "ok"
    THEN Raise(m1, d.outcome)
    ELSE LET change == m1.balance - product.price
             m2 == [m1 EXCEPT !.stock = d.inv,
                              !.total_amount = m1.total_amount + product.price,
                              !.balance = 0,
                              !.state = "idle"]
         IN Return(m2, <<product, change>>)

\* Mutant: cancel in Dispensing pays the balance back.
DispensingState_cancel_Refunds(m) ==
    LET money_back == m.balance
        m2 == [m EXCEPT !.balance = 0]
    IN Return(m2, <<money_back>>)

DispensingState_insert_money(m, amount) == Raise(m, "InvalidStateError")

DispensingState_select_product(m, code) == Raise(m, "InvalidStateError")

DispensingState_cancel(m) == Raise(m, "InvalidStateError")

\* --------------------------------------------------- commands and machine
\* InsertMoneyCommand.execute: dispatch on machine.state.
VendingMachine_insert_money(m, amount) ==
    CASE m.state = "idle"       -> IdleState_insert_money(m, amount)
      [] m.state = "has_money"  -> HasMoneyState_insert_money(m, amount)
      [] m.state = "dispensing" -> DispensingState_insert_money(m, amount)

\* SelectProductCommand.execute.
VendingMachine_select_product(m, code) ==
    CASE m.state = "idle"       -> IdleState_select_product(m, code)
      [] m.state = "has_money"  -> HasMoneyState_select_product(m, code)
      [] m.state = "dispensing" -> DispensingState_select_product(m, code)

\* CancelCommand.execute.
VendingMachine_cancel(m) ==
    CASE m.state = "idle"       -> IdleState_cancel(m)
      [] m.state = "has_money"  -> HasMoneyState_cancel(m)
      [] m.state = "dispensing" -> DispensingState_cancel(m)

\* VendingMachine.__init__.
VendingMachine_init ==
    [balance |-> 0, total_amount |-> 0, state |-> "idle", stock |-> EmptyStock]

\* ----------------------------------------------------------------- library
\* Library.MAX_BOOKS, Library.FREE_DAYS, and Library.FEE_PER_DAY_EXTRA (0.50
\* dollars) in cents.  Fees are sums of multiples of 0.50, which binary
\* floats hold exactly, so integer cents lose nothing.
MAX_BOOKS == 3
FREE_DAYS == 14
FEE_PER_DAY_EXTRA == 50

\* The Book objects of the callers.  Book.__eq__/__hash__ compare the uuid
\* id, so a Book is its id and its catalogue data.
BookObjs ==
    { [id |-> "b1", title |-> "Book 0"], [id |-> "b2", title |-> "Book 1"],
      [id |-> "b3", title |-> "Book 2"], [id |-> "b4", title |-> "Book 3"] }

\* The Member objects of the callers; "m3" carries the email of "m1".
MemberObjs ==
    { [id |-> "m1", name |-> "John Doe", email |-> "john@test.com"],
      [id |-> "m2", name |-> "Jane Smith", email |-> "jane@test.com"],
      [id |-> "m3", name |-> "Different Name", email |-> "john@test.com"] }

MemberIds == { m.id : m \in MemberObjs }

\* The members who come to borrow: "m3" only ever tries to register.
Borrowers == { m \in MemberObjs : m.id \in {"m1", "m2"} }

\* The days (counted from the first day) on which the library is used: the
\* first day, the due date of a loan of the first day, and the last day.
VisitDays == {0, FREE_DAYS, MaxDay}

\* The books lent when the library is used over several days.
ClockBooks == { b \in BookObjs : b.id \in {"b1", "b2"} }

\* The fields of Library, with the outstanding_fees of the Member objects.
Lib ==
    [members |-> members, books |-> books, active_loans |-> active_loans,
     historic_loans |-> historic_loans, outstanding_fees |-> outstanding_fees]

\* Library.__init__ and Member.__init__ (outstanding_fees = 0.0).
Library_init ==
    [members |-> [i \in {} |-> 0], books |-> [i \in {} |-> 0],
     active_loans |-> [i \in {} |-> 0], historic_loans |-> <<>>,
     outstanding_fees |-> [i \in MemberIds |-> 0]]

\* A call that raises ValueError(msg), and a call that returns ret.
LibRaise(lib, msg) == [lib |-> lib, outcome |-> "ValueError", msg |-> msg, ret |-> <<>>]
LibReturn(lib, ret) == [lib |-> lib, outcome |-> "ok", msg |-> "", ret |-> ret]

\* dict[key] = value, and dict.pop(key).
Put(dict, key, value) ==
    [k \in DOMAIN dict \cup {key} |-> IF k = key THEN value ELSE dict[k]]
Pop(dict, key) == [k \in DOMAIN dict \ {key} |-> dict[k]]

\* uuid.uuid4() of Loan.__init__: an id no Loan created so far has.  It names
\* the book and counts the loans of that book, so that it does not depend on
\* the order in which different books were borrowed.
FreshLoanId(made, book) ==
    <<book.id, Cardinality({ l \in made : l.book.id = book.id }) + 1>>

\* Loan.__init__: loan_id stands for the fresh uuid.
Loan_init(loan_id, book, member, date_due, day) ==
    [id |-> loan_id, book |-> book, member |-> member,
     date_checkout |-> day, date_due |-> date_due, late_fee |-> 0]

\* Loan._calculate_late_fee(), called without return_date: check_date is
\* date.today().
Loan_calculate_late_fee(loan, day) ==
    LET check_date == day IN
    IF check_date > loan.date_due
    THEN (check_date - loan.date_due) * FEE_PER_DAY_EXTRA
    ELSE 0

\* Mutant: no test of the email.
Library_add_member_NoEmailCheck(lib, member) ==
    IF member.id \in DOMAIN lib.members
    THEN LibRaise(lib, "already registered")
    ELSE LibReturn([lib EXCEPT !.members = Put(lib.members, member.id, member)],
                   <<member.name>>)

\* Library.add_member.
Library_add_member(lib, member) ==
    IF member.id \in DOMAIN lib.members
    THEN LibRaise(lib, "already registered")
    ELSE IF \E i \in DOMAIN lib.members : lib.members[i].email = member.email
    THEN LibRaise(lib, "already used")
    ELSE LibReturn([lib EXCEPT !.members = Put(lib.members, member.id, member)],
                   <<member.name>>)

Library_add_book(lib, book) ==
    IF book.id \in DOMAIN lib.books
    THEN LibRaise(lib, "already registered")
    ELSE LibReturn([lib EXCEPT !.books = Put(lib.books, book.id, book)],
                   <<book.title>>)

\* Mutant: the limit test is ">" where the code has ">=".
Library_member_borrow_book_LimitOffByOne(lib, book, member, day, loan_id) ==
    IF book.id \notin DOMAIN lib.books
    THEN LibRaise(lib, "book dont exist")
    ELSE IF member.id \notin DOMAIN lib.members
    THEN LibRaise(lib, "member dont exist")
    ELSE IF book.id \in DOMAIN lib.active_loans
    THEN LibRaise(lib, "already borrowed")
    ELSE LET qnt_loan_member ==
                 Cardinality({ b \in DOMAIN lib.active_loans :
                                 lib.active_loans[b].member.id = member.id })
         IN IF qnt_loan_member > MAX_BOOKS
            THEN LibRaise(lib, "limit")
            ELSE LET date_due == day + FREE_DAYS
                     loan == Loan_init(loan_id, book, member, date_due, day)
                 IN LibReturn([lib EXCEPT !.active_loans =
                                   Put(lib.active_loans, book.id, loan)],
                              <<loan>>)

\* Mutant: no test of "book in self.active_loans"; the new loan replaces the
\* one the book has.
Library_member_borrow_book_NoLoanCheck(lib, book, member, day, loan_id) ==
    IF book.id \notin DOMAIN lib.books
    THEN LibRaise(lib, "book dont exist")
    ELSE IF member.id \notin DOMAIN lib.members
    THEN LibRaise(lib, "member dont exist")
    ELSE LET qnt_loan_member ==
                 Cardinality({ b \in DOMAIN lib.active_loans :
                                 lib.active_loans[b].member.id = member.id })
         IN IF qnt_loan_member >= MAX_BOOKS
            THEN LibRaise(lib, "limit")
            ELSE LET date_due == day + FREE_DAYS
                     loan == Loan_init(loan_id, book, member, date_due, day)
                 IN LibReturn([lib EXCEPT !.active_loans =
                                   Put(lib.active_loans, book.id, loan)],
                              <<loan>>)

\* Library.member_borrow_book; Book and Member objects are truthy, so the
\* "book and", "member and" guards of lines 177 and 180 always pass.
Library_member_borrow_book(lib, book, member, day, loan_id) ==
    IF book.id \notin DOMAIN lib.books
    THEN LibRaise(lib, "book dont exist")
    ELSE IF member.id \notin DOMAIN lib.members
    THEN LibRaise(lib, "member dont exist")
    ELSE IF book.id \in DOMAIN lib.active_loans
    THEN LibRaise(lib, "already borrowed")
    ELSE LET qnt_loan_member ==
                 Cardinality({ b \in DOMAIN lib.active_loans :
                                 lib.active_loans[b].member.id = member.id })
         IN IF qnt_loan_member >= MAX_BOOKS
            THEN LibRaise(lib, "limit")
            ELSE LET date_due == day + FREE_DAYS
                     loan == Loan_init(loan_id, book, member, date_due, day)
                 IN LibReturn([lib EXCEPT !.active_loans =
                                   Put(lib.active_loans, book.id, loan)],
                              <<loan>>)

\* Mutant: "outstanding_fees = late_fee" where the code has "+=".
Library_member_return_book_OverwritesFees(lib, book, day) ==
    IF book.id \notin DOMAIN lib.books
    THEN LibRaise(lib, "book dont exist")
    ELSE IF book.id \notin DOMAIN lib.active_loans
    THEN LibRaise(lib, "already returned")
    ELSE LET popped == lib.active_loans[book.id]
             loan == [popped EXCEPT !.late_fee = Loan_calculate_late_fee(popped, day)]
             payer == loan.member.id
         IN LibReturn([lib EXCEPT
                          !.active_loans = Pop(lib.active_loans, book.id),
                          !.outstanding_fees[payer] = loan.late_fee,
                          !.historic_loans = Append(lib.historic_loans, loan)],
                      <<loan>>)

\* Mutant: the loan is read with active_loans[book] and never popped.
Library_member_return_book_KeepsActive(lib, book, day) ==
    IF book.id \notin DOMAIN lib.books
    THEN LibRaise(lib, "book dont exist")
    ELSE IF book.id \notin DOMAIN lib.active_loans
    THEN LibRaise(lib, "already returned")
    ELSE LET popped == lib.active_loans[book.id]
             loan == [popped EXCEPT !.late_fee = Loan_calculate_late_fee(popped, day)]
             payer == loan.member.id
         IN LibReturn([lib EXCEPT
                          !.outstanding_fees[payer] =
                              lib.outstanding_fees[payer] + loan.late_fee,
                          !.historic_loans = Append(lib.historic_loans, loan)],
                      <<loan>>)

\* Library.member_return_book.
Library_member_return_book(lib, book, day) ==
    IF book.id \notin DOMAIN lib.books
    THEN LibRaise(lib, "book dont exist")
    ELSE IF book.id \notin DOMAIN lib.active_loans
    THEN LibRaise(lib, "already returned")
    ELSE LET popped == lib.active_loans[book.id]
             loan == [popped EXCEPT !.late_fee = Loan_calculate_late_fee(popped, day)]
             payer == loan.member.id
         IN LibReturn([lib EXCEPT
                          !.active_loans = Pop(lib.active_loans, book.id),
                          !.outstanding_fees[payer] =
                              lib.outstanding_fees[payer] + loan.late_fee,
                          !.historic_loans = Append(lib.historic_loans, loan)],
                      <<loan>>)

NoBook == [id |-> "None", title |-> "None"]
NoMember == [id |-> "None", name |-> "None", email |-> "None"]

\* The library after construction, on the first day.
LibraryInit ==
    /\ members = Library_init.members
    /\ books = Library_init.books
    /\ active_loans = Library_init.active_loans
    /\ historic_loans = Library_init.historic_loans
    /\ outstanding_fees = Library_init.outstanding_fees
    /\ today = 0
    /\ issued = {}
    /\ lcall = [op |-> "init", book |-> NoBook, member |-> NoMember,
                outcome |-> "ok", msg |-> "", ret |-> <<>>,
                pre |-> Library_init, day |-> 0]

\* --------------------------------------------------------------------- ATM
\* MIN_WITHDRAWAL_AMOUNT (10.00) and MIN_DEPOSIT_AMOUNT (0.01), in cents.
MIN_WITHDRAWAL_AMOUNT == 1000
MIN_DEPOSIT_AMOUNT == 1

\* ATMMachine._to_decimal and Account._to_decimal: a float, in mills, to a
\* Decimal of 2 places, in cents, ROUND_HALF_UP.
ATM_to_decimal(amount) == Quantize(amount)

\* Account.__init__, followed by the caller's "account.balance = ..." of the
\* tests (balance in cents); withdraw_limit is a float, in mills.
Account_init(name, account_code, withdraw_limit, assigned) ==
    [id |-> account_code, name |-> name, account_code |-> account_code,
     balance |-> assigned, transactions |-> <<>>,
     withdraw_limit |-> ATM_to_decimal(withdraw_limit)]

\* The Account objects of the callers: one with 20.00 and a limit of 10.00,
\* one as constructed (balance 0.00, the default limit of 100.00).
AccountObjs ==
    { Account_init("John Doe", "12345", 10000, 2000),
      Account_init("Test User", "54321", 100000, 0) }

\* The account codes typed in; "99999" is never registered.
AccountCodes == {"12345", "54321", "99999"}

\* The amounts of withdrawal, in mills: 10.00, 20.00, 30.00, 15.00, 10.004,
\* 0.004, 0 and -10.00.
WithdrawalAmounts == {10000, 20000, 30000, 15000, 10004, 4, 0, -10000}

\* The amounts of deposit, in mills: 10.00, 0.005, 0.004, 0 and -50.00.
DepositAmounts == {10000, 5, 4, 0, -50000}

\* ATMMachine.__init__: the accounts registry.
ATMMachine_init == [i \in {} |-> 0]

\* A call that raises the error, and a call that returns ret.
ATMRaise(accs, error) == [accounts |-> accs, outcome |-> error, ret |-> <<>>]
ATMReturn(accs, ret) == [accounts |-> accs, outcome |-> "ok", ret |-> ret]

\* The validators, as the result of validate: "ok" or the error raised.
\* A chain is the list of its validators, in the order of set_next.
RECURSIVE ValidatorChain_validate(_, _, _)
ValidatorChain_validate(chain, account, amount) ==
    IF chain = <<>> THEN "ok"
    ELSE LET next == ValidatorChain_validate(Tail(chain), account, amount) IN
         CASE Head(chain) = "AmountValidatorChain" ->
                IF amount <= 0 THEN "InvalidAmountError"
                ELSE IF amount % MIN_WITHDRAWAL_AMOUNT # 0 THEN "InvalidAmountError"
                ELSE next
           [] Head(chain) = "BalanceValidatorChain" ->
                IF account.balance < amount THEN "InsufficientFundsError"
                ELSE next
           [] Head(chain) = "LimitValidatorChain" ->
                IF amount > account.withdraw_limit THEN "ExceededWithdrawLimitError"
                ELSE next
           [] Head(chain) = "DepositValidatorChain" ->
                IF amount < MIN_DEPOSIT_AMOUNT THEN "InvalidAmountError"
                ELSE next

\* Mutant: the limit validator is set before the balance validator.
withdrawal_validator_LimitBeforeBalance ==
    <<"AmountValidatorChain", "LimitValidatorChain", "BalanceValidatorChain">>

\* Mutant: the chain has no balance validator.
withdrawal_validator_NoBalanceCheck ==
    <<"AmountValidatorChain", "LimitValidatorChain">>

\* ATMMachine.__init__: the two chains.
withdrawal_validator ==
    <<"AmountValidatorChain", "BalanceValidatorChain", "LimitValidatorChain">>

deposit_validator == <<"DepositValidatorChain">>

\* Transaction(type, amount, balance_after, account_id).
Transaction_init(type, amount, balance_after, account_id) ==
    [type |-> type, amount |-> amount, balance_after |-> balance_after,
     account_id |-> account_id]

\* Account.debit, Account.credit, Account.add_transaction.
Account_debit(account, amount) == [account EXCEPT !.balance = account.balance - amount]
Account_credit(account, amount) == [account EXCEPT !.balance = account.balance + amount]
Account_add_transaction(account, transaction) ==
    [account EXCEPT !.transactions = Append(account.transactions, transaction)]

\* The strategies: the account after execute, the outcome and the value
\* returned.
StrategyResult(account, outcome, ret) ==
    [account |-> account, outcome |-> outcome, ret |-> ret]

\* Mutant: the account is debited before the validators run.
WithdrawalStrategy_execute_DebitsFirst(account, amount, validator) ==
    LET debited == Account_debit(account, amount)
        v == ValidatorChain_validate(validator, account, amount)
    IN IF v # "ok" THEN StrategyResult(debited, v, <<>>)
       ELSE LET new_balance == debited.balance
                transaction == Transaction_init("WITHDRAWAL", amount,
                                                new_balance, account.id)
            IN StrategyResult(Account_add_transaction(debited, transaction),
                              "ok", <<new_balance>>)

WithdrawalStrategy_execute(account, amount, validator) ==
    LET v == ValidatorChain_validate(validator, account, amount) IN
    IF v # "ok" THEN StrategyResult(account, v, <<>>)
    ELSE LET debited == Account_debit(account, amount)
             new_balance == debited.balance
             transaction == Transaction_init("WITHDRAWAL", amount,
                                             new_balance, account.id)
         IN StrategyResult(Account_add_transaction(debited, transaction),
                           "ok", <<new_balance>>)

DepositStrategy_execute(account, amount, validator) ==
    LET v == ValidatorChain_validate(validator, account, amount) IN
    IF v # "ok" THEN StrategyResult(account, v, <<>>)
    ELSE LET credited == Account_credit(account, amount)
             new_balance == credited.balance
             transaction == Transaction_init("DEPOSIT", amount,
                                             new_balance, account.id)
         IN StrategyResult(Account_add_transaction(credited, transaction),
                           "ok", <<new_balance>>)

BalanceInquiryStrategy_execute(account) ==
    LET transaction == Transaction_init("BALANCE_INQUIRY", 0,
                                        account.balance, account.id)
    IN StrategyResult(Account_add_transaction(account, transaction),
                      "ok", <<account.balance>>)

\* The registry after a strategy has run on the account of this code.
ATMAfter(accs, account_code, r) ==
    LET accs2 == [accs EXCEPT ![account_code] = r.account] IN
    IF r.outcome = "ok" THEN ATMReturn(accs2, r.ret) ELSE ATMRaise(accs2, r.outcome)

\* ATMMachine.withdrawal: _get_account, _to_decimal, the strategy.
ATMMachine_withdrawal(accs, account_code, amount) ==
    IF account_code \notin DOMAIN accs THEN ATMRaise(accs, "AccountNotFound")
    ELSE LET amount_decimal == ATM_to_decimal(amount) IN
         ATMAfter(accs, account_code,
                  WithdrawalStrategy_execute(accs[account_code], amount_decimal,
                                             withdrawal_validator))

\* ATMMachine.deposit.
ATMMachine_deposit(accs, account_code, amount) ==
    IF account_code \notin DOMAIN accs THEN ATMRaise(accs, "AccountNotFound")
    ELSE LET amount_decimal == ATM_to_decimal(amount) IN
         ATMAfter(accs, account_code,
                  DepositStrategy_execute(accs[account_code], amount_decimal,
                                          deposit_validator))

\* ATMMachine.balance_inquiry.
ATMMachine_balance_inquiry(accs, account_code) ==
    IF account_code \notin DOMAIN accs THEN ATMRaise(accs, "AccountNotFound")
    ELSE ATMAfter(accs, account_code,
                  BalanceInquiryStrategy_execute(accs[account_code]))

\* ATMMachine.register_account.  The registry holds the Account object
\* itself, so registering an object a second time changes nothing.
ATMMachine_register_account(accs, account) ==
    IF account.account_code \in DOMAIN accs THEN ATMReturn(accs, <<>>)
    ELSE ATMReturn(Put(accs, account.account_code, account), <<>>)

\* The ATM after construction.
ATMInit ==
    /\ accounts = ATMMachine_init
    /\ acall = [op |-> "init", account_code |-> "", amount |-> 0,
                outcome |-> "ok", ret |-> <<>>, pre |-> ATMMachine_init]

\* ---------------------------------------------------------- coffee machine
\* CoffeeMachine._initialize_ingredients: the quantity of each ingredient.
CoffeeMachine_initialize_ingredients ==
    [coffee |-> 1000, water |-> 5000, milk |-> 2000]

\* CoffeeMachine._load_recipes: each recipe is its dict of ingredients, in
\* the order of the dict.
CoffeeMachine_load_recipes ==
    [espresso   |-> <<[ingredient |-> "coffee", amount |-> 18],
                      [ingredient |-> "water", amount |-> 30]>>,
     americano  |-> <<[ingredient |-> "coffee", amount |-> 18],
                      [ingredient |-> "water", amount |-> 120]>>,
     cappuccino |-> <<[ingredient |-> "coffee", amount |-> 18],
                      [ingredient |-> "water", amount |-> 30],
                      [ingredient |-> "milk", amount |-> 100]>>,
     latte      |-> <<[ingredient |-> "coffee", amount |-> 18],
                      [ingredient |-> "water", amount |-> 30],
                      [ingredient |-> "milk", amount |-> 200]>>]

\* The coffee types ordered: the recipe that takes most water, the one that
\* takes most milk, and "mocha", which is no recipe.
CoffeeTypes == {"americano", "latte", "mocha"}

\* The arguments of refill_ingredient.
RefillNames == {"milk", "sugar"}
RefillAmounts == {1000, -1}

\* A call that raises the error, and a call that returns.
CoffeeRaise(q, error) == [q |-> q, outcome |-> error]
CoffeeReturn(q) == [q |-> q, outcome |-> "ok"]

\* Ingredient.has_sufficient.
Ingredient_has_sufficient(q, name, amount) == q[name] >= amount

\* Ingredient.consume.
Ingredient_consume(q, name, amount) ==
    IF amount < 0 THEN CoffeeRaise(q, "ValueError")
    ELSE IF ~Ingredient_has_sufficient(q, name, amount)
    THEN CoffeeRaise(q, "InsufficientIngredientError")
    ELSE CoffeeReturn([q EXCEPT ![name] = q[name] - amount])

\* Ingredient.refill.
Ingredient_refill(q, name, amount) ==
    IF amount < 0 THEN CoffeeRaise(q, "ValueError")
    ELSE CoffeeReturn([q EXCEPT ![name] = q[name] + amount])

\* Recipe.check_availability.
Recipe_check_availability(q, recipe) ==
    \A i \in DOMAIN recipe :
        Ingredient_has_sufficient(q, recipe[i].ingredient, recipe[i].amount)

\* The loop "for ingredient, amount in self._ingredients.items():
\* ingredient.consume(amount)": an error ends it where it is raised.
RECURSIVE ConsumeEach(_, _)
ConsumeEach(q, recipe) ==
    IF recipe = <<>> THEN CoffeeReturn(q)
    ELSE LET r == Ingredient_consume(q, Head(recipe).ingredient, Head(recipe).amount)
         IN IF r.outcome # "ok" THEN r ELSE ConsumeEach(r.q, Tail(recipe))

\* Mutant: no first pass; the ingredients are consumed one by one.
Recipe_consume_ingredients_NoFirstPass(q, recipe) == ConsumeEach(q, recipe)

\* Recipe.consume_ingredients.
Recipe_consume_ingredients(q, recipe) ==
    IF ~Recipe_check_availability(q, recipe)
    THEN CoffeeRaise(q, "InsufficientIngredientError")
    ELSE ConsumeEach(q, recipe)

\* machine.make_coffee(machine.create_coffee(coffee_type)): create_coffee
\* raises for an unknown type, make_coffee consumes the base recipe.
CoffeeMachine_make_coffee(q, coffee_type) ==
    IF coffee_type \notin DOMAIN CoffeeMachine_load_recipes
    THEN CoffeeRaise(q, "CoffeeTypeNotFoundError")
    ELSE Recipe_consume_ingredients(q, CoffeeMachine_load_recipes[coffee_type])

\* CoffeeMachine.refill_ingredient.
CoffeeMachine_refill_ingredient(q, ingredient_name, amount) ==
    IF ingredient_name \notin DOMAIN q THEN CoffeeRaise(q, "ValueError")
    ELSE Ingredient_refill(q, ingredient_name, amount)

\* The coffee machine after construction.
CoffeeInit ==
    /\ quantity_available = CoffeeMachine_initialize_ingredients
    /\ refills = 0
    /\ ccall = [op |-> "init", arg |-> "", amount |-> 0, outcome |-> "ok",
                pre |-> CoffeeMachine_initialize_ingredients]

\* ------------------------------------------- parking lot (multi-level)
\* Bus.SPOTS_NEEDED.
SPOTS_NEEDED == 5

\* The arguments of ParkingLot(num_levels, spots_per_level): the dict of
\* spot counts as the list of its items, in the order of the dict.
LotArgs ==
    [num_levels |-> 2,
     spots_per_level |-> <<[size |-> "COMPACT", count |-> 1],
                           [size |-> "LARGE", count |-> 6]>>]

\* The Vehicle objects of the callers: class and license plate.
VehicleObjs ==
    { [class |-> "Bus", license_plate |-> "BUS-001"],
      [class |-> "Car", license_plate |-> "CAR-456"],
      [class |-> "Car", license_plate |-> "CAR-789"],
      [class |-> "Motorcycle", license_plate |-> "MOTO-123"] }

NoVehicle == [class |-> "None", license_plate |-> "None"]

\* Motorcycle / Car / Bus .can_fit_in_spot.
Vehicle_can_fit_in_spot(vehicle, spot) ==
    CASE vehicle.class = "Motorcycle" -> TRUE
      [] vehicle.class = "Car" -> spot.size \in {"COMPACT", "LARGE"}
      [] vehicle.class = "Bus" -> spot.size = "LARGE"

\* ParkingSpot.__init__ and ParkingSpot.is_available.
ParkingSpot_init(spot_number, size, level) ==
    [spot_number |-> spot_number, size |-> size, level |-> level,
     vehicle |-> NoVehicle]

ParkingSpot_is_available(spot) == spot.vehicle = NoVehicle

\* Level.__init__: the spots of one size after those of the sizes before
\* it, numbered from 0.
RECURSIVE Level_init(_, _)
Level_init(level_number, spots_config) ==
    IF spots_config = <<>> THEN <<>>
    ELSE LET n == Len(spots_config)
             before == Level_init(level_number, SubSeq(spots_config, 1, n - 1))
         IN before \o [k \in 1..spots_config[n].count |->
                          ParkingSpot_init(Len(before) + k - 1,
                                           spots_config[n].size, level_number)]

\* ParkingLot.__init__: levels 0 .. num_levels - 1.
ParkingLot_init(args) ==
    [levels |-> [i \in 1..args.num_levels |-> Level_init(i - 1, args.spots_per_level)],
     tickets |-> [t \in {} |-> 0],
     ticket_counter |-> 0]

\* The fields of ParkingLot.
Lot == [levels |-> levels, tickets |-> tickets, ticket_counter |-> ticket_counter]

\* Mutant: the run of spots is not emptied at a spot that is taken or not
\* large.
RECURSIVE Level_find_consecutive_large_spots_NoReset(_, _, _, _)
Level_find_consecutive_large_spots_NoReset(spots, i, consecutive, count) ==
    IF i > Len(spots) THEN <<>>
    ELSE IF spots[i].size = "LARGE" /\ ParkingSpot_is_available(spots[i])
    THEN LET run == Append(consecutive, i) IN
         IF Len(run) = count THEN run
         ELSE Level_find_consecutive_large_spots_NoReset(spots, i + 1, run, count)
    ELSE Level_find_consecutive_large_spots_NoReset(spots, i + 1, consecutive, count)

\* Level._find_consecutive_large_spots, from the spot at index i on with the
\* run found so far: the indices of the spots returned, <<>> for None.
RECURSIVE Level_find_consecutive_large_spots(_, _, _, _)
Level_find_consecutive_large_spots(spots, i, consecutive, count) ==
    IF i > Len(spots) THEN <<>>
    ELSE IF spots[i].size = "LARGE" /\ ParkingSpot_is_available(spots[i])
    THEN LET run == Append(consecutive, i) IN
         IF Len(run) = count THEN run
         ELSE Level_find_consecutive_large_spots(spots, i + 1, run, count)
    ELSE Level_find_consecutive_large_spots(spots, i + 1, <<>>, count)

\* Level.find_spots_for_vehicle: the indices of the spots, <<>> for None.
Level_find_spots_for_vehicle(spots, vehicle) ==
    IF vehicle.class = "Bus"
    THEN Level_find_consecutive_large_spots(spots, 1, <<>>, SPOTS_NEEDED)
    ELSE LET fit == { i \in 1..Len(spots) :
                        /\ ParkingSpot_is_available(spots[i])
                        /\ Vehicle_can_fit_in_spot(vehicle, spots[i]) }
         IN IF fit = {} THEN <<>>
            ELSE <<CHOOSE i \in fit : \A j \in fit : i <= j>>

\* ParkingSpot.park: the spot after the call and the value returned.
ParkingSpot_park(spot, vehicle) ==
    IF ~ParkingSpot_is_available(spot) \/ ~Vehicle_can_fit_in_spot(vehicle, spot)
    THEN [spot |-> spot, ret |-> FALSE]
    ELSE [spot |-> [spot EXCEPT !.vehicle = vehicle], ret |-> TRUE]

\* ParkingSpot.remove_vehicle.
ParkingSpot_remove_vehicle(spot) == [spot EXCEPT !.vehicle = NoVehicle]

\* Level.remove_vehicle_from_spots.
Level_remove_vehicle_from_spots(spots, chosen) ==
    [i \in 1..Len(spots) |->
        IF \E k \in 1..Len(chosen) : chosen[k] = i
        THEN ParkingSpot_remove_vehicle(spots[i]) ELSE spots[i]]

\* Level.park_vehicle, at the k-th of the chosen spots: the spots of the
\* level after the call and the value returned.  A spot that refuses the
\* vehicle ends the loop and the spots taken before it are freed.
RECURSIVE Level_park_vehicle(_, _, _, _)
Level_park_vehicle(spots, vehicle, chosen, k) ==
    IF k > Len(chosen) THEN [spots |-> spots, ret |-> TRUE]
    ELSE LET p == ParkingSpot_park(spots[chosen[k]], vehicle) IN
         IF ~p.ret
         THEN [spots |-> Level_remove_vehicle_from_spots(spots, SubSeq(chosen, 1, k - 1)),
               ret |-> FALSE]
         ELSE Level_park_vehicle([spots EXCEPT ![chosen[k]] = p.spot],
                                 vehicle, chosen, k + 1)

\* ParkingTicket.__init__: the spots are those of the level at these
\* indices.
ParkingTicket_init(ticket_id, vehicle, level, chosen) ==
    [ticket_id |-> ticket_id, vehicle |-> vehicle, level |-> level,
     spots |-> chosen]

NoTicket == [ticket_id |-> 0, vehicle |-> NoVehicle, level |-> 0, spots |-> <<>>]

\* ParkingLot.park_vehicle, from the level at index l on: the lot after the
\* call and the ticket returned, NoTicket for None.  _generate_ticket_id
\* counts the tickets; the id is the number in "TKT-%06d".
RECURSIVE ParkingLot_park_vehicle(_, _, _)
ParkingLot_park_vehicle(lot, vehicle, l) ==
    IF l > Len(lot.levels) THEN [lot |-> lot, ret |-> NoTicket]
    ELSE LET spots == Level_find_spots_for_vehicle(lot.levels[l], vehicle)
             parked == Level_park_vehicle(lot.levels[l], vehicle, spots, 1)
             lot1 == [lot EXCEPT !.levels[l] = parked.spots]
         IN IF spots # <<>> /\ parked.ret
            THEN LET ticket_id == lot1.ticket_counter + 1
                     ticket == ParkingTicket_init(ticket_id, vehicle, l, spots)
                 IN [lot |-> [lot1 EXCEPT !.ticket_counter = ticket_id,
                                          !.tickets = Put(lot1.tickets, ticket_id, ticket)],
                     ret |-> ticket]
            ELSE ParkingLot_park_vehicle(IF spots # <<>> THEN lot1 ELSE lot,
                                         vehicle, l + 1)

\* ParkingLot.exit_vehicle: the lot after the call and the ticket returned,
\* NoTicket for None.
ParkingLot_exit_vehicle(lot, ticket_id) ==
    IF ticket_id \notin DOMAIN lot.tickets THEN [lot |-> lot, ret |-> NoTicket]
    ELSE LET ticket == lot.tickets[ticket_id]
             l == ticket.level
         IN [lot |-> [lot EXCEPT
                        !.levels[l] = Level_remove_vehicle_from_spots(
                                          lot.levels[l], ticket.spots),
                        !.tickets = Pop(lot.tickets, ticket_id)],
             ret |-> ticket]

\* The default hourly_rate of calculate_fee, Decimal("5.00"), in cents.
HOURLY_RATE == 500

\* exit_time of a ticket that has not left: None.
NoTime == -1

\* ParkingTicket.calculate_fee for times in seconds.  hours is the float
\* seconds / 3600 and int() truncates, so for seconds >= 0
\* int(hours + 0.99) is (seconds + 3564) \div 3600.
ParkingTicket_calculate_fee(entry, exit, hourly_rate) ==
    IF exit = NoTime THEN 0
    ELSE LET seconds == exit - entry
             truncated == (seconds + 3564) \div 3600
             hours_rounded == IF truncated > 1 THEN truncated ELSE 1
         IN hours_rounded * hourly_rate

\* No exit_vehicle has returned a ticket yet.
NoExit == [entry_time |-> NoTime, exit_time |-> NoTime, fee |-> 0]

\* The parking lot after construction.
LotInit ==
    /\ levels = ParkingLot_init(LotArgs).levels
    /\ tickets = ParkingLot_init(LotArgs).tickets
    /\ ticket_counter = ParkingLot_init(LotArgs).ticket_counter
    /\ pcall = [op |-> "init", vehicle |-> NoVehicle, ticket_id |-> 0,
                ret |-> NoTicket, pre |-> ParkingLot_init(LotArgs)]
    /\ clock = 0
    /\ entry_time = [t \in {} |-> 0]
    /\ tcall = NoExit

\* ------------------------------------------- parking lot, single level
\* src/01-parking-lot/parking_lot.py: ParkingSpot, ParkingTicket, ParkingLot.

\* ParkingSpot.VEHICLE_TYPE_TO_SPOT_SIZE and ParkingSpot.SPOT_SIZE.
VEHICLE_TYPE_TO_SPOT_SIZE(vehicle_type) ==
    CASE vehicle_type = "MOTORCYCLE" -> "COMPACT"
      [] vehicle_type = "CAR" -> "REGULAR"
      [] vehicle_type = "TRUCK" -> "LARGE"

SPOT_SIZE(size) ==
    CASE size = "COMPACT" -> 1
      [] size = "REGULAR" -> 2
      [] size = "LARGE" -> 3

\* ParkingLot.SPOT_FEE_HOUR, in cents, and ParkingLot.FREE_TIME, in seconds.
SPOT_FEE_HOUR(size) ==
    CASE size = "COMPACT" -> 500
      [] size = "REGULAR" -> 1000
      [] size = "LARGE" -> 2000

FREE_TIME == 1800

\* The ParkingSpot objects of the callers; obj tells objects apart,
\* "spot1b" being a second ParkingSpot("C1", SpotSize.COMPACT).
SpotObjs ==
    { [obj |-> "spot1", id |-> "C1", size |-> "COMPACT"],
      [obj |-> "spot1b", id |-> "C1", size |-> "COMPACT"],
      [obj |-> "spot4", id |-> "R1", size |-> "REGULAR"] }

NoSpot == [obj |-> "None", id |-> "None", size |-> "None"]

\* The Vehicle objects of the callers: vehicle_type and license plate.
LotVehicles ==
    { [vehicle_type |-> "MOTORCYCLE", license_plate |-> "MOTO-1"],
      [vehicle_type |-> "MOTORCYCLE", license_plate |-> "MOTO-2"],
      [vehicle_type |-> "CAR", license_plate |-> "ABC-123"] }

NoLotVehicle == [vehicle_type |-> "None", license_plate |-> "None"]

\* The time between open_ticket and close_ticket, in seconds: a second more
\* than an hour.
Durations == {3601}

\* The fields of ParkingLot, with is_available of every ParkingSpot object.
PLot ==
    [spots |-> lot_spots, open_tickets |-> open_tickets,
     close_tickets |-> close_tickets, is_available |-> is_available,
     made |-> ticket_count]

\* ParkingLot.__init__; a ParkingSpot is constructed available.
ParkingLot1_init ==
    [spots |-> <<>>, open_tickets |-> [p \in {} |-> 0], close_tickets |-> <<>>,
     is_available |-> [o \in { s.obj : s \in SpotObjs } |-> TRUE],
     made |-> 0]

PRaise(lot, error) == [lot |-> lot, outcome |-> error, ret |-> <<>>]
PReturn(lot, ret) == [lot |-> lot, outcome |-> "ok", ret |-> ret]

\* The places of the dict spots whose key is the id.
PlacesOf(spots, id) == { i \in DOMAIN spots : spots[i].id = id }

\* ParkingLot.add_spot: a new key goes to the end of the dict.
ParkingLot_add_spot(lot, spot) ==
    IF PlacesOf(lot.spots, spot.id) # {}
    THEN PRaise(lot, "ValueError")
    ELSE PReturn([lot EXCEPT !.spots = Append(lot.spots, spot)], <<spot>>)

\* ParkingLot.remove_spot: pops the object stored under the id.
ParkingLot_remove_spot(lot, spot) ==
    IF PlacesOf(lot.spots, spot.id) = {}
    THEN PRaise(lot, "ValueError")
    ELSE LET i == CHOOSE k \in PlacesOf(lot.spots, spot.id) : TRUE
             rest == [k \in 1..(Len(lot.spots) - 1) |->
                        IF k < i THEN lot.spots[k] ELSE lot.spots[k + 1]]
         IN PReturn([lot EXCEPT !.spots = rest], <<lot.spots[i]>>)

\* Mutant: any available spot the vehicle fits in (can_fit_spot) is taken.
ParkingLot_find_spot_AnyFitting(lot, vehicle) ==
    LET required_size == VEHICLE_TYPE_TO_SPOT_SIZE(vehicle.vehicle_type)
        fit == { i \in DOMAIN lot.spots :
                    /\ lot.is_available[lot.spots[i].obj]
                    /\ SPOT_SIZE(lot.spots[i].size) >= SPOT_SIZE(required_size) }
    IN IF fit = {} THEN NoSpot
       ELSE lot.spots[CHOOSE i \in fit : \A k \in fit : i <= k]

\* ParkingLot._find_spot: the first spot of the dict that is available and
\* of the required size, NoSpot for None.
ParkingLot_find_spot(lot, vehicle) ==
    LET required_size == VEHICLE_TYPE_TO_SPOT_SIZE(vehicle.vehicle_type)
        fit == { i \in DOMAIN lot.spots :
                    /\ lot.is_available[lot.spots[i].obj]
                    /\ lot.spots[i].size = required_size }
    IN IF fit = {} THEN NoSpot
       ELSE lot.spots[CHOOSE i \in fit : \A k \in fit : i <= k]

\* ParkingLot._calculate_price, in cents, for a duration in seconds:
\* ceil(duration in hours) * SPOT_FEE_HOUR after the free time.
ParkingLot_calculate_price(duration, size) ==
    IF duration <= FREE_TIME THEN 0
    ELSE ((duration + 3599) \div 3600) * SPOT_FEE_HOUR(size)

\* ParkingTicket.__init__: id is the number of the object, finish_time
\* (here the seconds since start_time) is None.
ParkingTicket1_init(id, vehicle, parking_spot) ==
    [id |-> id, vehicle |-> vehicle, parking_spot |-> parking_spot,
     price |-> 0, finish_time |-> NoTime]

NoParkingTicket == ParkingTicket1_init(0, NoLotVehicle, NoSpot)

\* ParkingLot.open_ticket: Vehicle.__eq__/__hash__ compare the license
\* plate, so open_tickets has one slot per plate.
ParkingLot_open_ticket(lot, vehicle) ==
    IF vehicle.license_plate \in DOMAIN lot.open_tickets
    THEN PRaise(lot, "ValueError")
    ELSE LET spot == ParkingLot_find_spot(lot, vehicle) IN
         IF spot = NoSpot
         THEN PReturn(lot, <<NoParkingTicket>>)
         ELSE LET ticket == ParkingTicket1_init(lot.made + 1, vehicle, spot)
              IN PReturn([lot EXCEPT
                            !.is_available[spot.obj] = FALSE,
                            !.made = lot.made + 1,
                            !.open_tickets = Put(lot.open_tickets,
                                                 vehicle.license_plate, ticket)],
                         <<ticket>>)

\* ParkingLot.close_ticket, duration seconds after the ticket was opened.
ParkingLot_close_ticket(lot, vehicle, duration) ==
    IF vehicle.license_plate \notin DOMAIN lot.open_tickets
    THEN PRaise(lot, "ValueError")
    ELSE LET opened == lot.open_tickets[vehicle.license_plate]
             ticket == [opened EXCEPT
                          !.finish_time = duration,
                          !.price = ParkingLot_calculate_price(
                                        duration, opened.parking_spot.size)]
         IN PReturn([lot EXCEPT
                       !.open_tickets = Pop(lot.open_tickets, vehicle.license_plate),
                       !.is_available[ticket.parking_spot.obj] = TRUE,
                       !.close_tickets = Append(lot.close_tickets, ticket)],
                    <<ticket>>)

\* The single-level lot after construction.
ParkInit ==
    /\ lot_spots = ParkingLot1_init.spots
    /\ open_tickets = ParkingLot1_init.open_tickets
    /\ close_tickets = ParkingLot1_init.close_tickets
    /\ is_available = ParkingLot1_init.is_available
    /\ ticket_count = ParkingLot1_init.made
    /\ scall = [op |-> "init", vehicle |-> NoLotVehicle, spot |-> NoSpot,
                outcome |-> "ok", ret |-> <<>>, pre |-> ParkingLot1_init]

\* ---------------------------------------------------------------- observer
\* The inserts accepted since the machine was last Idle, while nothing but
\* inserts happened: their number, the sum of the raw amounts (mills) and the
\* sum of the quantized amounts (cents).
NoSession == [tracked |-> FALSE, n |-> 0, raw |-> 0, rounded |-> 0]
FreshSession == [tracked |-> TRUE, n |-> 0, raw |-> 0, rounded |-> 0]

SessionAfter(op, amount, r) ==
    IF r.m.state = "idle" THEN FreshSession
    ELSE IF op \in {"add_product", "Product", "dispense_product"} \/ (op = "insert_money" /\ r.outcome # "ok")
    THEN session
    ELSE IF op = "insert_money" /\ session.tracked /\ session.n < MaxTracked
    THEN [tracked |-> TRUE, n |-> session.n + 1,
          raw |-> session.raw + amount,
          rounded |-> session.rounded + Quantize(amount)]
    ELSE NoSession

\* The ledger of an audit: the sum of the amounts accepted by insert_money,
\* each quantized (cents), the sum of the change returned by sales, the sum
\* of the refunds returned by cancel, and per code the units added by
\* add_product.
NoLedger ==
    [inserted |-> 0, change |-> 0, refunds |-> 0,
     added |-> [c \in {} |-> 0]]

LedgerAfter(op, amount, code, quantity, r) ==
    IF r.outcome # "ok" THEN ledger
    ELSE CASE op = "insert_money" ->
                [ledger EXCEPT !.inserted = ledger.inserted + Quantize(amount)]
           [] op = "select_product" ->
                [ledger EXCEPT !.change = ledger.change + r.ret[2]]
           [] op = "cancel" ->
                [ledger EXCEPT !.refunds = ledger.refunds + r.ret[1]]
           [] op = "add_product" ->
                [ledger EXCEPT !.added =
                    [c \in DOMAIN ledger.added \cup {code} |->
                        (IF c \in DOMAIN ledger.added THEN ledger.added[c] ELSE 0)
                        + (IF c = code THEN quantity ELSE 0)]]
           [] OTHER -> ledger

\* The bounds of an audit.
LedgerBounded(led) ==
    /\ led.inserted <= MaxInserted
    /\ \A c \in DOMAIN led.added : led.added[c] <= MaxAdded

\* Two callers of one machine, with no lock.  A caller is outside a call
\* (pc "out", with the result of its last select_product) or at a statement
\* of HasMoneyState.select_product or of the Inventory.dispense_product it
\* calls, with the locals code, product and change.
Callers == {1, 2}

NoCall ==
    [pc |-> "out", code |-> "", product |-> NoProduct, change |-> 0,
     outcome |-> "none"]

\* The bounds of the model, as a guard on the state a call leads to.
Bounded(m) ==
    /\ m.balance <= MaxBalance
    /\ m.total_amount <= MaxRevenue
    /\ \A c \in DOMAIN m.stock : m.stock[c].qty <= MaxStock

\* The machine after the call or the step, the record of it, the product of
\* the sale that is under way after it, and the ledger after it.
CommitLedger(op, amount, code, product, quantity, r, sale, led) ==
    /\ Bounded(r.m)
    /\ balance' = r.m.balance
    /\ total_amount' = r.m.total_amount
    /\ state' = r.m.state
    /\ stock' = r.m.stock
    /\ session' = SessionAfter(op, amount, r)
    /\ call' = [op |-> op, amount |-> amount, code |-> code,
                product |-> product, quantity |-> quantity,
                outcome |-> r.outcome, ret |-> r.ret,
                pre |-> Machine, pre_session |-> session]
    /\ in_sale' = sale
    /\ ledger' = led
    /\ UNCHANGED callers
    /\ UNCHANGED <<libVars, atmVars, coffeeVars, lotVars, parkVars>>

\* The same, with no ledger kept.
CommitWith(op, amount, code, product, quantity, r, sale) ==
    CommitLedger(op, amount, code, product, quantity, r, sale, ledger)

\* The machine after the call, and the record of the call.
Commit(op, amount, code, product, quantity, r) ==
    CommitWith(op, amount, code, product, quantity, r, in_sale)

\* ----------------------------------------------------------- specification
Init ==
    /\ balance = VendingMachine_init.balance
    /\ total_amount = VendingMachine_init.total_amount
    /\ state = VendingMachine_init.state
    /\ stock = VendingMachine_init.stock
    /\ session = FreshSession
    /\ call = [op |-> "init", amount |-> 0, code |-> "", product |-> NoProduct,
               quantity |-> 0, outcome |-> "ok", ret |-> <<>>,
               pre |-> VendingMachine_init, pre_session |-> FreshSession]
    /\ in_sale = NoProduct
    /\ ledger = NoLedger
    /\ callers = [t \in Callers |-> NoCall]
    /\ LibraryInit
    /\ ATMInit
    /\ CoffeeInit
    /\ LotInit
    /\ ParkInit

\* vm.insert_money(amount)
InsertMoney ==
    \E i \in DOMAIN AmountList :
        LET amount == AmountList[i] IN
        Commit("insert_money", amount, "", NoProduct, 0,
               VendingMachine_insert_money(Machine, amount))

\* vm.select_product(code)
SelectProduct ==
    \E code \in SelectCodes :
        Commit("select_product", 0, code, NoProduct, 0,
               VendingMachine_select_product(Machine, code))

\* vm.cancel()
Cancel ==
    Commit("cancel", 0, "", NoProduct, 0, VendingMachine_cancel(Machine))

\* vm.inventory.add_product(Product(name, price, code), quantity): the
\* argument is constructed first, and a ValueError of Product.__init__ ends
\* the call before add_product runs.
AddProduct ==
    \E args \in ProductArgs, quantity \in Quantities :
        LET made == Product_init(args[1], args[2], args[3]) IN
        IF made = <<>>
        THEN Commit("Product", args[2], args[3], NoProduct, quantity,
                    Raise(Machine, "ValueError"))
        ELSE LET a == Inventory_add_product(stock, made[1], quantity) IN
             Commit("add_product", args[2], args[3], made[1], quantity,
                    [m |-> [Machine EXCEPT !.stock = a.inv],
                     outcome |-> a.outcome, ret |-> a.ret])

Next == InsertMoney \/ SelectProduct \/ Cancel \/ AddProduct

Spec == Init /\ [][Next]_vars

\* vm.inventory.dispense_product(Product(name, price, code)), called on the
\* inventory directly, outside a sale.
DispenseProduct ==
    \E args \in ProductArgs :
        LET made == Product_init(args[1], args[2], args[3]) IN
        /\ made # <<>>
        /\ LET d == Inventory_dispense_product(stock, made[1]) IN
           Commit("dispense_product", args[2], args[3], made[1], 0,
                  [m |-> [Machine EXCEPT !.stock = d.inv],
                   outcome |-> d.outcome, ret |-> d.ret])

\* vm.select_product(code) as far as the dispense step, for a code that
\* passes the checks: the machine is in Dispensing and dispense_product has
\* not yet run.
SelectEnter ==
    \E code \in SelectCodes :
        LET r == HasMoneyState_select_product_enter(Machine, code) IN
        /\ state = "has_money"
        /\ in_sale = NoProduct
        /\ r.outcome = "dispensing"
        /\ CommitWith("select_product.enter", 0, code, r.ret[1], 0, r, r.ret[1])

\* The rest of that select_product call.
SelectLeave ==
    /\ in_sale # NoProduct
    /\ CommitWith("select_product.leave", 0, in_sale.code, in_sale, 0,
                  HasMoneyState_select_product_leave(Machine, in_sale), NoProduct)

\* The machine called again from within a sale (by what dispense_product
\* sets off): a call of Next between SelectEnter and SelectLeave finds the
\* machine in Dispensing.
NextReentrant == Next \/ SelectEnter \/ SelectLeave

SpecReentrant == Init /\ [][NextReentrant]_vars

\* The machine after the call, the record of the call and the ledger.
CommitAudited(op, amount, code, product, quantity, r) ==
    LET led == LedgerAfter(op, amount, code, quantity, r) IN
    /\ LedgerBounded(led)
    /\ CommitLedger(op, amount, code, product, quantity, r, in_sale, led)

\* vm.insert_money(amount)
InsertMoneyAudited ==
    \E i \in DOMAIN AmountList :
        LET amount == AmountList[i] IN
        CommitAudited("insert_money", amount, "", NoProduct, 0,
                      VendingMachine_insert_money(Machine, amount))

\* vm.select_product(code)
SelectProductAudited ==
    \E code \in SelectCodes :
        CommitAudited("select_product", 0, code, NoProduct, 0,
                      VendingMachine_select_product(Machine, code))

\* vm.cancel()
CancelAudited ==
    CommitAudited("cancel", 0, "", NoProduct, 0, VendingMachine_cancel(Machine))

\* vm.inventory.add_product(Product(name, price, code), quantity)
AddProductAudited ==
    \E args \in ProductArgs, quantity \in Quantities :
        LET made == Product_init(args[1], args[2], args[3]) IN
        IF made = <<>>
        THEN CommitAudited("Product", args[2], args[3], NoProduct, quantity,
                           Raise(Machine, "ValueError"))
        ELSE LET a == Inventory_add_product(stock, made[1], quantity) IN
             CommitAudited("add_product", args[2], args[3], made[1], quantity,
                           [m |-> [Machine EXCEPT !.stock = a.inv],
                            outcome |-> a.outcome, ret |-> a.ret])

\* The machine under audit: the operations of Next, with the ledger kept.
NextAudited ==
    InsertMoneyAudited \/ SelectProductAudited \/ CancelAudited \/ AddProductAudited

SpecAudited == Init /\ [][NextAudited]_vars

\* The arguments of the callers of the machine without a lock: the amount
\* 0.014, the product Coke (0.014, code A1), one unit at a time, and the
\* codes A1 and Z9.
ConcurrentAmounts == {14}
ConcurrentProducts == { <<"Coke", 14, "A1">> }
ConcurrentCodes == {"A1", "Z9"}

\* The machine and the callers after a statement or an uninterrupted call;
\* the observers of whole calls are left as they are.
Interleaved(m, cs) ==
    /\ Bounded(m)
    /\ balance' = m.balance
    /\ total_amount' = m.total_amount
    /\ state' = m.state
    /\ stock' = m.stock
    /\ callers' = cs
    /\ UNCHANGED <<session, call, in_sale, ledger>>
    /\ UNCHANGED <<libVars, atmVars, coffeeVars, lotVars, parkVars>>

\* A caller's step: the machine after the statement and the caller after it.
Step(t, m, c) == Interleaved(m, [callers EXCEPT ![t] = c])

\* vm.insert_money(amount), run without interruption.
InsertMoneyAtomic ==
    \E amount \in ConcurrentAmounts :
        Interleaved(VendingMachine_insert_money(Machine, amount).m, callers)

\* vm.cancel(), run without interruption.
CancelAtomic ==
    Interleaved(VendingMachine_cancel(Machine).m, callers)

\* vm.inventory.add_product(Product(name, price, code), 1), run without
\* interruption.
AddProductAtomic ==
    \E args \in ConcurrentProducts :
        LET made == Product_init(args[1], args[2], args[3]) IN
        /\ made # <<>>
        /\ Interleaved([Machine EXCEPT !.stock =
                           Inventory_add_product(stock, made[1], 1).inv],
                       callers)

\* The caller leaves the call with an exception or a return value.
Leave(c, outcome) == [c EXCEPT !.pc = "out", !.outcome = outcome]

\* vm.select_product(code): SelectProductCommand.execute reads
\* self.machine.state and calls its select_product; IdleState and
\* DispensingState raise at once.
CallSelect ==
    \E t \in Callers, code \in ConcurrentCodes :
        /\ callers[t].pc = "out"
        /\ Step(t, Machine,
                IF state = "has_money"
                THEN [NoCall EXCEPT !.pc = "get_product", !.code = code]
                ELSE Leave([NoCall EXCEPT !.code = code], "InvalidStateError"))

\* product = self.machine.inventory.get_product(code); if not product: raise
GetProduct ==
    \E t \in Callers :
        LET c == callers[t]
            product == Inventory_get_product(stock, c.code)
        IN /\ c.pc = "get_product"
           /\ Step(t, Machine,
                   IF product = NoProduct
                   THEN Leave(c, "ProductNotFoundError")
                   ELSE [c EXCEPT !.pc = "has_stock", !.product = product])

\* if not self.machine.inventory.has_stock(product): raise
CheckStock ==
    \E t \in Callers :
        LET c == callers[t] IN
        /\ c.pc = "has_stock"
        /\ Step(t, Machine,
                IF ~Inventory_has_stock(stock, c.product)
                THEN Leave(c, "OutOfStockError")
                ELSE [c EXCEPT !.pc = "funds"])

\* if self.machine.balance < product.price: raise
CheckFunds ==
    \E t \in Callers :
        LET c == callers[t] IN
        /\ c.pc = "funds"
        /\ Step(t, Machine,
                IF balance < c.product.price
                THEN Leave(c, "InsufficientFundsError")
                ELSE [c EXCEPT !.pc = "set_dispensing"])

\* self.machine.state = self.machine.dispensing_state
SetDispensing ==
    \E t \in Callers :
        LET c == callers[t] IN
        /\ c.pc = "set_dispensing"
        /\ Step(t, [Machine EXCEPT !.state = "dispensing"],
                [c EXCEPT !.pc = "dispense_check"])

\* Inventory.dispense_product: if not self.has_stock(product): raise
DispenseCheck ==
    \E t \in Callers :
        LET c == callers[t] IN
        /\ c.pc = "dispense_check"
        /\ Step(t, Machine,
                IF ~Inventory_has_stock(stock, c.product)
                THEN Leave(c, "OutOfStockError")
                ELSE [c EXCEPT !.pc = "decrement"])

\* Inventory.dispense_product: self._stock[product] -= 1
Decrement ==
    \E t \in Callers :
        LET c == callers[t] IN
        /\ c.pc = "decrement"
        /\ Step(t, [Machine EXCEPT !.stock =
                        DictSet(stock, c.product,
                                Inventory_get_product_stock(stock, c.product) - 1)],
                [c EXCEPT !.pc = "change"])

\* change = self.machine.balance - product.price
ComputeChange ==
    \E t \in Callers :
        LET c == callers[t] IN
        /\ c.pc = "change"
        /\ Step(t, Machine,
                [c EXCEPT !.pc = "revenue", !.change = balance - c.product.price])

\* self.machine.total_amount += product.price
AddRevenue ==
    \E t \in Callers :
        LET c == callers[t] IN
        /\ c.pc = "revenue"
        /\ Step(t, [Machine EXCEPT !.total_amount = total_amount + c.product.price],
                [c EXCEPT !.pc = "zero_balance"])

\* self.machine.balance = Decimal('0.00')
ZeroBalance ==
    \E t \in Callers :
        LET c == callers[t] IN
        /\ c.pc = "zero_balance"
        /\ Step(t, [Machine EXCEPT !.balance = 0], [c EXCEPT !.pc = "set_idle"])

\* self.machine.state = self.machine.idle_state; return product, change
SetIdle ==
    \E t \in Callers :
        LET c == callers[t] IN
        /\ c.pc = "set_idle"
        /\ Step(t, [Machine EXCEPT !.state = "idle"], Leave(c, "ok"))

\* The callers' select_product calls, statement by statement in any
\* interleaving, and insert_money, cancel and add_product calls that run
\* without interruption.
NextConcurrent ==
    \/ InsertMoneyAtomic \/ CancelAtomic \/ AddProductAtomic
    \/ CallSelect \/ GetProduct \/ CheckStock \/ CheckFunds \/ SetDispensing
    \/ DispenseCheck \/ Decrement \/ ComputeChange \/ AddRevenue
    \/ ZeroBalance \/ SetIdle

SpecConcurrent == Init /\ [][NextConcurrent]_vars

\* The machine with its inventory also operated directly.
NextInventory == Next \/ DispenseProduct

SpecInventory == Init /\ [][NextInventory]_vars

\* ------------------------------------------------- library specification
\* The library after the call, and the record of the call.
LibCommit(op, book, member, r) ==
    /\ members' = r.lib.members
    /\ books' = r.lib.books
    /\ active_loans' = r.lib.active_loans
    /\ historic_loans' = r.lib.historic_loans
    /\ outstanding_fees' = r.lib.outstanding_fees
    /\ lcall' = [op |-> op, book |-> book, member |-> member,
                 outcome |-> r.outcome, msg |-> r.msg, ret |-> r.ret,
                 pre |-> Lib, day |-> today]
    /\ UNCHANGED today
    /\ UNCHANGED <<vmVars, atmVars, coffeeVars, lotVars, parkVars>>

\* library.add_member(member)
AddMember ==
    \E member \in MemberObjs :
        /\ LibCommit("add_member", NoBook, member, Library_add_member(Lib, member))
        /\ UNCHANGED issued

\* library.add_book(book)
AddBook ==
    \E book \in BookObjs :
        /\ LibCommit("add_book", book, NoMember, Library_add_book(Lib, book))
        /\ UNCHANGED issued

\* library.member_borrow_book(book, member)
BorrowBook ==
    \E book \in BookObjs, member \in Borrowers :
        LET r == Library_member_borrow_book(Lib, book, member, today,
                                            FreshLoanId(issued, book))
        IN /\ r.outcome = "ok" => Cardinality(issued) < MaxLoans
           /\ LibCommit("member_borrow_book", book, member, r)
           /\ issued' = IF r.outcome = "ok" THEN issued \cup {r.ret[1]}
                        ELSE issued

\* library.member_return_book(book)
ReturnBook ==
    \E book \in BookObjs :
        LET r == Library_member_return_book(Lib, book, today)
        IN /\ r.outcome = "ok" => Len(historic_loans) < MaxHistory
           /\ LibCommit("member_return_book", book, NoMember, r)
           /\ UNCHANGED issued

\* The library used within one day: date.today() is the same in every call.
NextLibrary == AddMember \/ AddBook \/ BorrowBook \/ ReturnBook

SpecLibrary == Init /\ [][NextLibrary]_vars

\* The library used over several days, by the two borrowers and with two
\* books.
AddMemberClock ==
    \E member \in Borrowers :
        /\ LibCommit("add_member", NoBook, member, Library_add_member(Lib, member))
        /\ UNCHANGED issued

AddBookClock ==
    \E book \in ClockBooks :
        /\ LibCommit("add_book", book, NoMember, Library_add_book(Lib, book))
        /\ UNCHANGED issued

BorrowBookClock ==
    \E book \in ClockBooks, member \in Borrowers :
        LET r == Library_member_borrow_book(Lib, book, member, today,
                                            FreshLoanId(issued, book))
        IN /\ r.outcome = "ok" => Cardinality(issued) < MaxLoans
           /\ LibCommit("member_borrow_book", book, member, r)
           /\ issued' = IF r.outcome = "ok" THEN issued \cup {r.ret[1]}
                        ELSE issued

ReturnBookClock ==
    \E book \in ClockBooks :
        LET r == Library_member_return_book(Lib, book, today)
        IN /\ r.outcome = "ok" => Len(historic_loans) < MaxClosed
           /\ LibCommit("member_return_book", book, NoMember, r)
           /\ UNCHANGED issued

\* date.today() moves on between two calls.
AdvanceDay ==
    \E d \in VisitDays :
        /\ d > today
        /\ today' = d
        /\ UNCHANGED <<members, books, active_loans, historic_loans,
                       outstanding_fees, issued, lcall>>
        /\ UNCHANGED <<vmVars, atmVars, coffeeVars, lotVars, parkVars>>

NextLibraryClock ==
    AddMemberClock \/ AddBookClock \/ BorrowBookClock \/ ReturnBookClock
        \/ AdvanceDay

SpecLibraryClock == Init /\ [][NextLibraryClock]_vars

\* ----------------------------------------------------- ATM specification
\* The model's bound on the transactions an account records.
ATMBounded(accs) ==
    \A c \in DOMAIN accs : Len(accs[c].transactions) <= MaxTransactions

\* The registry after the call, and the record of the call.
ATMCommit(op, account_code, amount, r) ==
    /\ ATMBounded(r.accounts)
    /\ accounts' = r.accounts
    /\ acall' = [op |-> op, account_code |-> account_code, amount |-> amount,
                 outcome |-> r.outcome, ret |-> r.ret, pre |-> accounts]
    /\ UNCHANGED <<vmVars, libVars, coffeeVars, lotVars, parkVars>>

\* atm.register_account(account)
RegisterAccount ==
    \E account \in AccountObjs :
        ATMCommit("register_account", account.account_code, 0,
                  ATMMachine_register_account(accounts, account))

\* atm.withdrawal(account_code, amount)
Withdrawal ==
    \E account_code \in AccountCodes, amount \in WithdrawalAmounts :
        ATMCommit("withdrawal", account_code, amount,
                  ATMMachine_withdrawal(accounts, account_code, amount))

\* atm.deposit(account_code, amount)
Deposit ==
    \E account_code \in AccountCodes, amount \in DepositAmounts :
        ATMCommit("deposit", account_code, amount,
                  ATMMachine_deposit(accounts, account_code, amount))

\* atm.balance_inquiry(account_code)
BalanceInquiry ==
    \E account_code \in AccountCodes :
        ATMCommit("balance_inquiry", account_code, 0,
                  ATMMachine_balance_inquiry(accounts, account_code))

NextATM == RegisterAccount \/ Withdrawal \/ Deposit \/ BalanceInquiry

SpecATM == Init /\ [][NextATM]_vars

\* ------------------------------------------ coffee machine specification
\* The ingredients after the call, and the record of the call.
CoffeeCommit(op, arg, amount, r) ==
    /\ quantity_available' = r.q
    /\ ccall' = [op |-> op, arg |-> arg, amount |-> amount,
                 outcome |-> r.outcome, pre |-> quantity_available]
    /\ UNCHANGED <<vmVars, libVars, atmVars, lotVars, parkVars>>

\* machine.make_coffee(machine.create_coffee(coffee_type))
MakeCoffee ==
    \E coffee_type \in CoffeeTypes :
        /\ CoffeeCommit("make_coffee", coffee_type, 0,
                        CoffeeMachine_make_coffee(quantity_available, coffee_type))
        /\ UNCHANGED refills

\* machine.refill_ingredient(ingredient_name, amount)
RefillIngredient ==
    \E ingredient_name \in RefillNames, amount \in RefillAmounts :
        LET r == CoffeeMachine_refill_ingredient(quantity_available,
                                                 ingredient_name, amount)
        IN /\ r.outcome = "ok" => refills < MaxRefills
           /\ CoffeeCommit("refill_ingredient", ingredient_name, amount, r)
           /\ refills' = IF r.outcome = "ok" THEN refills + 1 ELSE refills

NextCoffee == MakeCoffee \/ RefillIngredient

SpecCoffee == Init /\ [][NextCoffee]_vars

\* ---------------------------------------------- parking lot specification
\* The lot after the call, and the record of the call.
LotCommit(op, vehicle, ticket_id, r) ==
    /\ r.lot.ticket_counter <= MaxTickets
    /\ levels' = r.lot.levels
    /\ tickets' = r.lot.tickets
    /\ ticket_counter' = r.lot.ticket_counter
    /\ pcall' = [op |-> op, vehicle |-> vehicle, ticket_id |-> ticket_id,
                 ret |-> r.ret, pre |-> Lot]
    /\ entry_time' = [t \in DOMAIN r.lot.tickets |->
                         IF t \in DOMAIN entry_time THEN entry_time[t] ELSE clock]
    /\ tcall' = IF op = "exit_vehicle" /\ r.ret # NoTicket
                THEN [entry_time |-> entry_time[ticket_id], exit_time |-> clock,
                      fee |-> ParkingTicket_calculate_fee(entry_time[ticket_id],
                                                          clock, HOURLY_RATE)]
                ELSE tcall
    /\ UNCHANGED clock
    /\ UNCHANGED <<vmVars, libVars, atmVars, coffeeVars, parkVars>>

\* lot.park_vehicle(vehicle)
ParkVehicle ==
    \E vehicle \in VehicleObjs :
        LotCommit("park_vehicle", vehicle, 0, ParkingLot_park_vehicle(Lot, vehicle, 1))

\* lot.exit_vehicle(ticket_id), for the ids of the tickets issued and one
\* never issued.
ExitVehicle ==
    \E ticket_id \in 1..(ticket_counter + 1) :
        LotCommit("exit_vehicle", NoVehicle, ticket_id,
                  ParkingLot_exit_vehicle(Lot, ticket_id))

NextLot == ParkVehicle \/ ExitVehicle

SpecLot == Init /\ [][NextLot]_vars

\* The parking lot over time: the instants at which it is called, the
\* vehicles that come, and the number of tickets issued.
Instants == {0, 18, 36, 3636, 7236}
ClockVehicles == { v \in VehicleObjs : v.license_plate \in {"CAR-456", "MOTO-123"} }

\* lot.park_vehicle(vehicle)
ParkVehicleClock ==
    \E vehicle \in ClockVehicles :
        /\ ticket_counter < MaxTimedTickets
        /\ LotCommit("park_vehicle", vehicle, 0, ParkingLot_park_vehicle(Lot, vehicle, 1))

\* lot.exit_vehicle(ticket_id)
ExitVehicleClock ==
    \E ticket_id \in 1..(ticket_counter + 1) :
        LotCommit("exit_vehicle", NoVehicle, ticket_id,
                  ParkingLot_exit_vehicle(Lot, ticket_id))

\* Time passes between two calls.
AdvanceClock ==
    \E t \in Instants :
        /\ t > clock
        /\ clock' = t
        /\ UNCHANGED <<levels, tickets, ticket_counter, pcall, entry_time, tcall>>
        /\ UNCHANGED <<vmVars, libVars, atmVars, coffeeVars, parkVars>>

NextLotClock == ParkVehicleClock \/ ExitVehicleClock \/ AdvanceClock

SpecLotClock == Init /\ [][NextLotClock]_vars

\* ------------------------------- single-level parking lot specification
\* The lot after the call, and the record of the call.
ParkCommit(op, vehicle, spot, r) ==
    /\ Len(r.lot.close_tickets) <= MaxClosedTickets
    /\ lot_spots' = r.lot.spots
    /\ open_tickets' = r.lot.open_tickets
    /\ close_tickets' = r.lot.close_tickets
    /\ is_available' = r.lot.is_available
    /\ ticket_count' = r.lot.made
    /\ scall' = [op |-> op, vehicle |-> vehicle, spot |-> spot,
                 outcome |-> r.outcome, ret |-> r.ret, pre |-> PLot]
    /\ UNCHANGED <<vmVars, libVars, atmVars, coffeeVars, lotVars>>

\* parking_lot.add_spot(spot)
AddSpot ==
    \E spot \in SpotObjs :
        ParkCommit("add_spot", NoLotVehicle, spot, ParkingLot_add_spot(PLot, spot))

\* parking_lot.remove_spot(spot)
RemoveSpot ==
    \E spot \in SpotObjs :
        ParkCommit("remove_spot", NoLotVehicle, spot, ParkingLot_remove_spot(PLot, spot))

\* parking_lot.open_ticket(vehicle)
OpenTicket ==
    \E vehicle \in LotVehicles :
        ParkCommit("open_ticket", vehicle, NoSpot, ParkingLot_open_ticket(PLot, vehicle))

\* parking_lot.close_ticket(vehicle)
CloseTicket ==
    \E vehicle \in LotVehicles, duration \in Durations :
        ParkCommit("close_ticket", vehicle, NoSpot,
                   ParkingLot_close_ticket(PLot, vehicle, duration))

NextPark == AddSpot \/ RemoveSpot \/ OpenTicket \/ CloseTicket

SpecPark == Init /\ [][NextPark]_vars

\* ------------------------------------------------------------------ claims
\* The stock count of a code; a code never added counts 0, as in
\* get_product_stock.
Count(inv, code) == IF code \in DOMAIN inv THEN inv[code].qty ELSE 0

SelectFailed == call.op = "select_product" /\ call.outcome # "ok"
SelectSucceeded == call.op = "select_product" /\ call.outcome = "ok"
CancelSucceeded == call.op = "cancel" /\ call.outcome = "ok"

\* C1: a select_product that raises, whatever the error, leaves the balance,
\* the machine state, the lifetime revenue and the stock count of every
\* product exactly as they were before the call.
C1_FailedSaleChangesNothing ==
    SelectFailed => Machine = call.pre

\* A selection rejected for insufficient funds while money and stock are held.
C1_Witness ==
    /\ SelectFailed
    /\ call.outcome = "InsufficientFundsError"
    /\ call.pre.state = "has_money"
    /\ Count(call.pre.stock, call.code) > 0
    /\ total_amount > 0

\* C2: a select_product that succeeds returns the change balance_before -
\* price, leaves the balance 0, adds the price to the lifetime revenue and
\* leaves the machine Idle.
C2_Conservation ==
    SelectSucceeded =>
        LET sold == Inventory_get_product(call.pre.stock, call.code) IN
        /\ call.ret = <<sold, call.pre.balance - sold.price>>
        /\ balance = 0
        /\ total_amount = call.pre.total_amount + sold.price
        /\ state = "idle"

\* A sale that pays change.
C2_Witness ==
    /\ SelectSucceeded
    /\ call.ret[2] > 0
    /\ call.ret[1].price > 0

\* C3: a select_product that succeeds takes exactly one unit off the count of
\* the selected code and leaves every other count alone; a call that raises,
\* an insert_money and a cancel change no count.
C3_NoDoubleDispense ==
    /\ SelectSucceeded =>
           \A c \in SelectCodes \cup DOMAIN stock \cup DOMAIN call.pre.stock :
               Count(stock, c) =
                   Count(call.pre.stock, c) - (IF c = call.code THEN 1 ELSE 0)
    /\ (call.outcome # "ok" \/ call.op \in {"insert_money", "cancel"}) =>
           stock = call.pre.stock

\* A sale from a stock of two, with another product on the shelf.
C3_Witness ==
    /\ SelectSucceeded
    /\ Count(call.pre.stock, call.code) = 2
    /\ \E c \in DOMAIN stock : c # call.code /\ Count(stock, c) > 0

\* C4 as stated: the cancel that follows the inserts a1..an made since Idle
\* returns the sum a1 + ... + an, rounded to 2 decimals, and leaves balance 0.
C4_CancelRefundsRoundedSum ==
    (CancelSucceeded /\ call.pre_session.tracked /\ call.pre_session.n >= 1) =>
        /\ call.ret = <<Quantize(call.pre_session.raw)>>
        /\ balance = 0

\* C4 amended: the cancel that follows the inserts a1..an made since Idle
\* returns the sum of the amounts each rounded to 2 decimals, and leaves
\* balance 0.
C4_CancelRefundsSumOfRounded ==
    (CancelSucceeded /\ call.pre_session.tracked /\ call.pre_session.n >= 1) =>
        /\ call.ret = <<call.pre_session.rounded>>
        /\ balance = 0

\* A cancel after two inserts of 0.014: each counted 0.01, the refund is 0.02,
\* while their sum 0.028 rounds to 0.03.
C4_Witness ==
    /\ CancelSucceeded
    /\ call.pre_session.tracked
    /\ call.pre_session.n = 2
    /\ call.pre_session.raw = 28
    /\ call.pre_session.rounded = 2
    /\ Quantize(call.pre_session.raw) = 3
    /\ call.ret = <<2>>
    /\ balance = 0

\* C5: insert_money of an amount <= 0 raises the invalid-amount error
\* (ValueError) in every reachable state and leaves balance, state, revenue
\* and inventory as they were.
C5_NonPositiveInsertRejected ==
    (call.op = "insert_money" /\ call.amount <= 0) =>
        /\ call.outcome = "ValueError"
        /\ call.ret = <<>>
        /\ Machine = call.pre

\* insert_money(0) rejected while a balance is held.
C5_Witness ==
    /\ call.op = "insert_money"
    /\ call.amount = 0
    /\ call.outcome = "ValueError"
    /\ state = "has_money"
    /\ balance > 0

\* C6: between operations the balance is 0 exactly when the machine is Idle.
C6_BalanceZeroIffIdle ==
    (balance = 0) <=> (state = "idle")

\* C7: a cancel that succeeds in HasBalance returns the whole balance, sets
\* the balance to 0 and leaves the machine Idle, so that the next
\* select_product and the next cancel are rejected by the Idle state.
C7_CancelReturnsToIdle ==
    (CancelSucceeded /\ call.pre.state = "has_money") =>
        /\ call.ret = <<call.pre.balance>>
        /\ balance = 0
        /\ state = "idle"
        /\ \A code \in SelectCodes :
               VendingMachine_select_product(Machine, code).outcome
                   = "InvalidStateError"
        /\ VendingMachine_cancel(Machine).outcome = "InvalidStateError"

\* C8: a cancel issued while the balance is 0 raises the
\* no-active-transaction error (InvalidStateError) and returns no refund.
C8_CancelWithZeroBalanceFails ==
    (call.op = "cancel" /\ call.pre.balance = 0) =>
        /\ call.outcome = "InvalidStateError"
        /\ call.ret = <<>>

\* C9: in HasBalance select_product raises ProductNotFound for a code never
\* added, OutOfStock for a known code with 0 units whatever the balance,
\* InsufficientFunds for a known code in stock with balance < price, and
\* succeeds otherwise; balance = price succeeds with change 0.
C9_OrderOfSelectionChecks ==
    (call.op = "select_product" /\ call.pre.state = "has_money") =>
        LET known == call.code \in DOMAIN call.pre.stock
            units == Count(call.pre.stock, call.code)
            price == call.pre.stock[call.code].key.price
        IN /\ call.outcome =
                  IF ~known THEN "ProductNotFoundError"
                  ELSE IF units = 0 THEN "OutOfStockError"
                  ELSE IF call.pre.balance < price THEN "InsufficientFundsError"
                  ELSE "ok"
           /\ (call.outcome = "ok" /\ call.pre.balance = price) =>
                  call.ret[2] = 0

\* A sold-out product selected with a balance below its price.
C9_Witness ==
    /\ call.op = "select_product"
    /\ call.pre.state = "has_money"
    /\ call.code \in DOMAIN call.pre.stock
    /\ Count(call.pre.stock, call.code) = 0
    /\ call.pre.balance < call.pre.stock[call.code].key.price
    /\ call.outcome = "OutOfStockError"

\* C10: in Idle select_product of any code and cancel raise the invalid-state
\* error and leave balance (0), state (Idle), revenue and inventory as they
\* were.
C10_IdleRejectsSelectAndCancel ==
    (call.pre.state = "idle" /\ call.op \in {"select_product", "cancel"}) =>
        /\ call.outcome = "InvalidStateError"
        /\ call.ret = <<>>
        /\ Machine = call.pre
        /\ balance = 0
        /\ state = "idle"

\* A code never added selected in Idle, with products on the shelf.
C10_Witness ==
    /\ call.pre.state = "idle"
    /\ call.op = "select_product"
    /\ call.code \notin DOMAIN stock
    /\ \E c \in DOMAIN stock : Count(stock, c) > 0
    /\ call.outcome = "InvalidStateError"

InsertSucceeded == call.op = "insert_money" /\ call.outcome = "ok"
AddSucceeded == call.op = "add_product" /\ call.outcome = "ok"

\* C11: an insert_money that succeeds, in Idle or in HasBalance, leaves
\* balance_after = balance_before + the amount rounded to 2 decimals, returns
\* that balance and leaves the machine in HasBalance.
C11_InsertAccumulates ==
    InsertSucceeded =>
        /\ balance = call.pre.balance + Quantize(call.amount)
        /\ call.ret = <<balance>>
        /\ state = "has_money"

\* A second insert on top of a balance already held.
C11_Witness ==
    /\ InsertSucceeded
    /\ call.pre.state = "has_money"
    /\ call.pre.balance > 0
    /\ balance > call.pre.balance

\* C12: whatever is called on the machine and on its inventory, every stock
\* count stays >= 0; dispense_product of a product whose count is 0, or that
\* was never added, raises OutOfStockError and leaves the inventory as it was.
C12_StockNeverNegative ==
    /\ \A c \in DOMAIN stock : stock[c].qty >= 0
    /\ (call.op = "dispense_product" /\ Count(call.pre.stock, call.code) = 0) =>
           /\ call.outcome = "OutOfStockError"
           /\ stock = call.pre.stock

\* dispense_product called on an entry that was sold down to 0.
C12_Witness ==
    /\ call.op = "dispense_product"
    /\ call.code \in DOMAIN call.pre.stock
    /\ Count(call.pre.stock, call.code) = 0
    /\ call.outcome = "OutOfStockError"
    /\ total_amount > 0

\* An add_product whose code is stored under another name.
AddConflicts ==
    /\ call.op = "add_product"
    /\ call.code \in DOMAIN call.pre.stock
    /\ call.product.name # call.pre.stock[call.code].key.name

\* C13 as stated: add_product with the code of a stored entry and another
\* name raises ProductCodeAlreadyUsedError and leaves every count and the
\* stored entry unchanged.
C13_ConflictAlwaysRejected ==
    AddConflicts =>
        /\ call.outcome = "ProductCodeAlreadyUsedError"
        /\ Machine = call.pre

\* C13 amended: add_product with a quantity > 0, the code of a stored entry
\* and another name raises ProductCodeAlreadyUsedError and leaves every count
\* and the stored entry unchanged.
C13_ConflictRejected ==
    (AddConflicts /\ call.quantity > 0) =>
        /\ call.outcome = "ProductCodeAlreadyUsedError"
        /\ Machine = call.pre

\* "Sprite" offered under the code of the stocked "Coke".
C13_Witness ==
    /\ AddConflicts
    /\ call.quantity > 0
    /\ Count(call.pre.stock, call.code) > 0
    /\ call.outcome = "ProductCodeAlreadyUsedError"

\* C14: add_product with quantity <= 0 raises the invalid-quantity error
\* (ValueError) and leaves the inventory unchanged, whether or not the code
\* is already stored.
C14_NonPositiveQuantityRejected ==
    (call.op = "add_product" /\ call.quantity <= 0) =>
        /\ call.outcome = "ValueError"
        /\ call.ret = <<>>
        /\ Machine = call.pre

\* Quantity 0 of a code that is not stored: no entry is created.
C14_Witness ==
    /\ call.op = "add_product"
    /\ call.quantity = 0
    /\ call.code \notin DOMAIN stock
    /\ DOMAIN stock # {}
    /\ call.outcome = "ValueError"

\* C15: an add_product(product, q) that succeeds raises the count of the
\* product's code by exactly q (an entry of count q when the code is new),
\* returns the new count and leaves every other entry, the balance, the
\* revenue and the machine state unchanged.
C15_AddRaisesCountByQuantity ==
    AddSucceeded =>
        /\ Count(stock, call.code) = Count(call.pre.stock, call.code) + call.quantity
        /\ call.ret = <<call.product, Count(stock, call.code)>>
        /\ DOMAIN stock = DOMAIN call.pre.stock \cup {call.code}
        /\ \A c \in DOMAIN call.pre.stock :
               /\ stock[c].key = call.pre.stock[c].key
               /\ c # call.code => stock[c] = call.pre.stock[c]
        /\ balance = call.pre.balance
        /\ total_amount = call.pre.total_amount
        /\ state = call.pre.state

\* One more unit of a stocked code, with another code on the shelf and money
\* in the machine.
C15_Witness ==
    /\ AddSucceeded
    /\ Count(call.pre.stock, call.code) = 1
    /\ call.quantity = 1
    /\ \E c \in DOMAIN stock : c # call.code /\ Count(stock, c) > 0
    /\ balance > 0

\* C16: the lifetime revenue never decreases, and it moves only in a
\* select_product that succeeds, by exactly the price of the product sold.
C16_RevenueMonotone ==
    /\ total_amount >= call.pre.total_amount
    /\ total_amount # call.pre.total_amount => SelectSucceeded
    /\ SelectSucceeded =>
           total_amount = call.pre.total_amount
                            + Inventory_get_product(call.pre.stock, call.code).price

\* A second paid sale: the revenue moves from a positive value to a larger one.
C16_Witness ==
    /\ SelectSucceeded
    /\ call.pre.total_amount > 0
    /\ total_amount > call.pre.total_amount

\* C17: every Product that is constructed has a stored price > 0.00, so no
\* product on offer and no sale has the price 0.00.
C17_NoFreeProduct ==
    /\ call.op \in {"add_product", "dispense_product"} => call.product.price > 0
    /\ \A c \in DOMAIN stock : stock[c].key.price > 0
    /\ SelectSucceeded => call.ret[1].price > 0

\* ------------------------------------------------------- library claims
\* The number of active loans of the member with this id.
LoansOf(lib, mid) ==
    Cardinality({ b \in DOMAIN lib.active_loans :
                    lib.active_loans[b].member.id = mid })

\* The ids of the loans in historic_loans.
ClosedIds(lib) == { lib.historic_loans[i].id : i \in 1..Len(lib.historic_loans) }

BorrowCalled == lcall.op = "member_borrow_book"
ReturnCalled == lcall.op = "member_return_book"

\* What member_borrow_book(book, member) would do in the present state.
BorrowNow(book, member) ==
    Library_member_borrow_book(Lib, book, member, today, FreshLoanId(issued, book))

\* C18: a member never has more than MAX_BOOKS (3) active loans; a borrow by
\* a member who has 3 active loans raises ValueError and leaves active_loans
\* as it was; a registered member below the limit borrows a registered, free
\* book with success, and right after the return of one of three books the
\* member's borrow of that book succeeds.
C18_LoanLimit ==
    /\ \A mid \in MemberIds : LoansOf(Lib, mid) <= MAX_BOOKS
    /\ (BorrowCalled /\ LoansOf(lcall.pre, lcall.member.id) >= MAX_BOOKS)
          => /\ lcall.outcome = "ValueError"
             /\ active_loans = lcall.pre.active_loans
             /\ (lcall.book.id \in DOMAIN lcall.pre.books \ DOMAIN lcall.pre.active_loans)
                   => lcall.msg = "limit"
    /\ (/\ BorrowCalled
        /\ lcall.book.id \in DOMAIN lcall.pre.books \ DOMAIN lcall.pre.active_loans
        /\ lcall.member.id \in DOMAIN lcall.pre.members
        /\ LoansOf(lcall.pre, lcall.member.id) < MAX_BOOKS)
          => /\ lcall.outcome = "ok"
             /\ LoansOf(Lib, lcall.member.id) = LoansOf(lcall.pre, lcall.member.id) + 1
    /\ (/\ ReturnCalled
        /\ lcall.outcome = "ok"
        /\ LoansOf(lcall.pre, lcall.ret[1].member.id) = MAX_BOOKS)
          => BorrowNow(lcall.book, lcall.ret[1].member).outcome = "ok"

\* One of a member's three books has just been returned, and the member's
\* borrow of it goes through.
C18_Witness ==
    /\ ReturnCalled
    /\ lcall.outcome = "ok"
    /\ LoansOf(lcall.pre, lcall.ret[1].member.id) = MAX_BOOKS
    /\ LoansOf(Lib, lcall.ret[1].member.id) = MAX_BOOKS - 1
    /\ BorrowNow(lcall.book, lcall.ret[1].member).outcome = "ok"

\* C19: every loan created and not yet closed is the one active_loans holds
\* for its book, so a book has at most one open loan; a borrow of a book that
\* is in active_loans raises ValueError for every member, the borrower of the
\* book included, and leaves active_loans (the existing loan) as it was.
C19_ExclusiveLoan ==
    /\ \A l \in issued :
          l.id \notin ClosedIds(Lib)
            => /\ l.book.id \in DOMAIN active_loans
               /\ active_loans[l.book.id].id = l.id
    /\ \A b \in DOMAIN active_loans : active_loans[b].book.id = b
    /\ (BorrowCalled /\ lcall.book.id \in DOMAIN lcall.pre.active_loans)
          => /\ lcall.outcome = "ValueError"
             /\ active_loans = lcall.pre.active_loans
             /\ lcall.member.id \in DOMAIN lcall.pre.members
                   => lcall.msg = "already borrowed"

\* The borrower of a book tries to borrow it a second time.
C19_Witness ==
    /\ BorrowCalled
    /\ lcall.msg = "already borrowed"
    /\ lcall.pre.active_loans[lcall.book.id].member.id = lcall.member.id
    /\ active_loans[lcall.book.id].member.id = lcall.member.id

\* C20: no loan is in historic_loans twice or in both historic_loans and
\* active_loans; a return of a borrowed book takes its loan out of
\* active_loans and appends that loan (with its fee) to historic_loans, and
\* every registered member below the limit can then borrow the book; a
\* return of a book without an active loan raises ValueError and leaves
\* active_loans, historic_loans and all fees as they were.
C20_LoanLifecycle ==
    /\ Cardinality(ClosedIds(Lib)) = Len(historic_loans)
    /\ \A b \in DOMAIN active_loans : active_loans[b].id \notin ClosedIds(Lib)
    /\ (ReturnCalled /\ lcall.book.id \in DOMAIN lcall.pre.active_loans)
          => LET loan == lcall.pre.active_loans[lcall.book.id] IN
             /\ lcall.outcome = "ok"
             /\ active_loans = Pop(lcall.pre.active_loans, lcall.book.id)
             /\ lcall.book.id \notin DOMAIN active_loans
             /\ historic_loans =
                    Append(lcall.pre.historic_loans,
                           [loan EXCEPT !.late_fee = lcall.ret[1].late_fee])
             /\ lcall.ret[1] = historic_loans[Len(historic_loans)]
             /\ \A mid \in DOMAIN members :
                    LoansOf(Lib, mid) < MAX_BOOKS
                      => BorrowNow(lcall.book, members[mid]).outcome = "ok"
    /\ (ReturnCalled /\ lcall.book.id \notin DOMAIN lcall.pre.active_loans)
          => /\ lcall.outcome = "ValueError"
             /\ active_loans = lcall.pre.active_loans
             /\ historic_loans = lcall.pre.historic_loans
             /\ outstanding_fees = lcall.pre.outstanding_fees

\* A book that was borrowed and returned has just been borrowed again: the
\* new loan is the second of the book, the first is in historic_loans.
C20_Witness ==
    /\ BorrowCalled
    /\ lcall.outcome = "ok"
    /\ lcall.ret[1].id = <<lcall.book.id, 2>>
    /\ <<lcall.book.id, 1>> \in ClosedIds(Lib)
    /\ active_loans[lcall.book.id] = lcall.ret[1]

\* The sum of late_fee over the loans of this member in a list of loans.
RECURSIVE SumFees(_, _)
SumFees(loans, mid) ==
    IF loans = <<>> THEN 0
    ELSE (IF Head(loans).member.id = mid THEN Head(loans).late_fee ELSE 0)
         + SumFees(Tail(loans), mid)

\* C21: every member's outstanding_fees is the sum of late_fee over the
\* member's loans in historic_loans; the late_fee of a returned loan is 50
\* cents for each day of the return after date_due and 0 for a return up to
\* date_due; no call lowers a member's outstanding_fees.
C21_FeesAccumulate ==
    /\ \A mid \in MemberIds :
          /\ outstanding_fees[mid] = SumFees(historic_loans, mid)
          /\ lcall.pre.outstanding_fees[mid] <= outstanding_fees[mid]
    /\ (ReturnCalled /\ lcall.outcome = "ok")
          => LET loan == lcall.ret[1]
                 days_late == lcall.day - loan.date_due
             IN /\ loan.late_fee = IF days_late > 0 THEN days_late * 50 ELSE 0
                /\ outstanding_fees[loan.member.id] =
                      lcall.pre.outstanding_fees[loan.member.id] + loan.late_fee

\* A member who owes the fee of a late return has returned a second book
\* late.
C21_Witness ==
    /\ ReturnCalled
    /\ lcall.outcome = "ok"
    /\ lcall.ret[1].late_fee > 0
    /\ lcall.pre.outstanding_fees[lcall.ret[1].member.id] > 0
    /\ Len(historic_loans) = 2
    /\ historic_loans[1].member.id = historic_loans[2].member.id
    /\ outstanding_fees[lcall.ret[1].member.id] =
          historic_loans[1].late_fee + historic_loans[2].late_fee

AddMemberCalled == lcall.op = "add_member"

\* C22: no two registered members have the same email and every member is
\* registered under its own id, once; add_member of a registered id or of a
\* registered email raises ValueError and leaves the registry as it was, and
\* any other add_member registers the member.
C22_RegistryUnique ==
    /\ \A i, j \in DOMAIN members :
          members[i].email = members[j].email => i = j
    /\ \A i \in DOMAIN members : members[i].id = i
    /\ AddMemberCalled
          => LET known == lcall.pre.members
                 dup_id == lcall.member.id \in DOMAIN known
                 dup_email == \E i \in DOMAIN known :
                                 known[i].email = lcall.member.email
             IN /\ (dup_id \/ dup_email) <=> lcall.outcome = "ValueError"
                /\ lcall.outcome = "ValueError" => members = known
                /\ lcall.outcome = "ok"
                      => /\ DOMAIN members = DOMAIN known \cup {lcall.member.id}
                         /\ members[lcall.member.id] = lcall.member
                         /\ \A i \in DOMAIN known : members[i] = known[i]

\* A member with a new id and the email of a registered member is refused.
C22_Witness ==
    /\ AddMemberCalled
    /\ lcall.outcome = "ValueError"
    /\ lcall.msg = "already used"
    /\ lcall.member.id \notin DOMAIN members
    /\ \E i \in DOMAIN members : members[i].email = lcall.member.email

\* ---------------------------------------------------------------- ATM claims
WithdrawalCalled == acall.op = "withdrawal"
\* The last call named a registered account.
OnAccount == acall.account_code \in DOMAIN acall.pre

\* C23: a withdrawal on a registered account raises the error of the first
\* failing check in the order amount (positive, multiple of 10.00), balance,
\* limit, and succeeds when none fails; a positive multiple of 10.00 above
\* both the balance and the limit raises InsufficientFundsError.
C23_ValidationOrder ==
    (WithdrawalCalled /\ OnAccount)
      => LET account == acall.pre[acall.account_code]
             amount == Quantize(acall.amount)
             bad_amount == amount <= 0 \/ amount % 1000 # 0
             short == account.balance < amount
             over == amount > account.withdraw_limit
         IN /\ acall.outcome =
                  IF bad_amount THEN "InvalidAmountError"
                  ELSE IF short THEN "InsufficientFundsError"
                  ELSE IF over THEN "ExceededWithdrawLimitError"
                  ELSE "ok"
            /\ (~bad_amount /\ short /\ over)
                  => acall.outcome = "InsufficientFundsError"

\* A withdrawal of a multiple of 10.00 above the balance and above the limit
\* has raised InsufficientFundsError.
C23_Witness ==
    /\ WithdrawalCalled
    /\ OnAccount
    /\ Quantize(acall.amount) > 0
    /\ Quantize(acall.amount) % 1000 = 0
    /\ Quantize(acall.amount) > acall.pre[acall.account_code].balance
    /\ Quantize(acall.amount) > acall.pre[acall.account_code].withdraw_limit
    /\ acall.outcome = "InsufficientFundsError"

\* C24: a withdrawal, deposit or balance inquiry that raises leaves every
\* account (balance and transactions) as it was; one that succeeds appends
\* exactly one transaction to the account, of the type of the call, whose
\* balance_after is the balance of the account after the call and the value
\* returned, and leaves the other accounts as they were.
C24_FailedOperationNoEffect ==
    acall.op \in {"withdrawal", "deposit", "balance_inquiry"}
      => /\ acall.outcome # "ok" => accounts = acall.pre
         /\ ~OnAccount => acall.outcome = "AccountNotFound"
         /\ acall.outcome = "ok"
               => LET before == acall.pre[acall.account_code]
                      after == accounts[acall.account_code]
                      n == Len(after.transactions)
                  IN /\ n = Len(before.transactions) + 1
                     /\ SubSeq(after.transactions, 1, n - 1) = before.transactions
                     /\ after.transactions[n].balance_after = after.balance
                     /\ after.transactions[n].type =
                           CASE acall.op = "withdrawal" -> "WITHDRAWAL"
                             [] acall.op = "deposit" -> "DEPOSIT"
                             [] acall.op = "balance_inquiry" -> "BALANCE_INQUIRY"
                     /\ acall.ret = <<after.balance>>
                     /\ \A c \in DOMAIN accounts \ {acall.account_code} :
                           accounts[c] = acall.pre[c]
                     /\ DOMAIN accounts = DOMAIN acall.pre

\* A withdrawal has failed on an account that records a transaction.
C24_Witness ==
    /\ WithdrawalCalled
    /\ OnAccount
    /\ acall.outcome \in {"InvalidAmountError", "InsufficientFundsError",
                           "ExceededWithdrawLimitError"}
    /\ Len(accounts[acall.account_code].transactions) > 0
    /\ accounts[acall.account_code] = acall.pre[acall.account_code]

\* ------------------------------------------------------- coffee claims
MakeCoffeeCalled ==
    ccall.op = "make_coffee" /\ ccall.arg \in DOMAIN CoffeeMachine_load_recipes

\* The amount of the ingredient in the recipe, 0 when it is not in it.
RecipeAmount(recipe, name) ==
    IF \E i \in DOMAIN recipe : recipe[i].ingredient = name
    THEN recipe[CHOOSE i \in DOMAIN recipe : recipe[i].ingredient = name].amount
    ELSE 0

\* C25: when an ingredient of the recipe is short, make_coffee raises
\* InsufficientIngredientError and every quantity is as it was; otherwise it
\* lowers every ingredient by its amount in the recipe and no other; no
\* quantity is ever negative.
C25_AllOrNothing ==
    /\ \A name \in DOMAIN quantity_available : quantity_available[name] >= 0
    /\ MakeCoffeeCalled
          => LET recipe == CoffeeMachine_load_recipes[ccall.arg]
                 short == \E name \in DOMAIN ccall.pre :
                             ccall.pre[name] < RecipeAmount(recipe, name)
             IN IF short
                THEN /\ ccall.outcome = "InsufficientIngredientError"
                     /\ quantity_available = ccall.pre
                ELSE /\ ccall.outcome = "ok"
                     /\ \A name \in DOMAIN ccall.pre :
                           quantity_available[name] =
                             ccall.pre[name] - RecipeAmount(recipe, name)

\* A latte was refused for milk while coffee and water were sufficient.
C25_Witness ==
    /\ MakeCoffeeCalled
    /\ ccall.arg = "latte"
    /\ ccall.outcome = "InsufficientIngredientError"
    /\ ccall.pre.milk < 200
    /\ ccall.pre.coffee >= 18
    /\ ccall.pre.water >= 30
    /\ quantity_available = ccall.pre

\* -------------------------------------------------- parking lot claims
BusParkCalled == pcall.op = "park_vehicle" /\ pcall.vehicle.class = "Bus"

\* The spot is large and holds no vehicle.
FreeLarge(spot) == spot.size = "LARGE" /\ spot.vehicle = NoVehicle

\* The level has 5 free large spots in a row, from the spot at index a on.
HasRunAt(spots, a) == \A k \in 0..4 : a + k <= Len(spots) /\ FreeLarge(spots[a + k])
HasRun(spots) == \E a \in 1..Len(spots) : HasRunAt(spots, a)

\* C26: park_vehicle of a Bus returns None exactly when no level has 5 free
\* large spots in a row, and then no spot changes; otherwise the ticket has
\* 5 spots of one level, with consecutive numbers, all large and free before
\* the call, each of them holds the bus after it and no other spot changes;
\* the spots of every open ticket of a bus hold that bus.
C26_BusOnFiveConsecutive ==
    /\ \A t \in DOMAIN tickets :
          tickets[t].vehicle.class = "Bus"
            => /\ Len(tickets[t].spots) = 5
               /\ \A k \in 1..5 :
                     levels[tickets[t].level][tickets[t].spots[k]].vehicle
                       = tickets[t].vehicle
    /\ BusParkCalled
          => LET before == pcall.pre.levels
                 t == pcall.ret
             IN /\ (t = NoTicket) <=> (\A l \in DOMAIN before : ~HasRun(before[l]))
                /\ t = NoTicket => /\ levels = before
                                   /\ tickets = pcall.pre.tickets
                /\ t # NoTicket
                      => /\ t.vehicle = pcall.vehicle
                         /\ Len(t.spots) = 5
                         /\ HasRunAt(before[t.level], t.spots[1])
                         /\ \A k \in 1..5 :
                               /\ t.spots[k] = t.spots[1] + k - 1
                               /\ levels[t.level][t.spots[k]].spot_number
                                     = levels[t.level][t.spots[1]].spot_number + k - 1
                               /\ levels[t.level][t.spots[k]].level = t.level - 1
                               /\ levels[t.level][t.spots[k]].vehicle = pcall.vehicle
                         /\ \A l \in DOMAIN levels : \A i \in DOMAIN levels[l] :
                               (l # t.level \/ \A k \in 1..5 : t.spots[k] # i)
                                 => levels[l][i] = before[l][i]
                         /\ t.ticket_id \in DOMAIN tickets
                         /\ tickets[t.ticket_id] = t

\* A bus is parked on the second level while the first has 5 free large
\* spots, not in a row.
C26_Witness ==
    /\ BusParkCalled
    /\ pcall.ret # NoTicket
    /\ pcall.ret.level = 2
    /\ Cardinality({ i \in DOMAIN pcall.pre.levels[1] :
                       FreeLarge(pcall.pre.levels[1][i]) }) >= 5
    /\ ~HasRun(pcall.pre.levels[1])
    /\ \A k \in 1..5 : levels[2][pcall.ret.spots[k]].vehicle = pcall.vehicle

\* ----------------------------------------------- vending claims, continued
\* C27: after every call, successful or not, the state of the machine is
\* idle or has_money, never dispensing.
C27_DispensingTransient ==
    /\ state \in {"idle", "has_money"}
    /\ call.pre.state \in {"idle", "has_money"}

\* A sale, which passes through dispensing, has ended in idle.
C27_Witness ==
    /\ SelectSucceeded
    /\ call.pre.state = "has_money"
    /\ state = "idle"

\* The select_product of the last call passed the three checks of
\* HasMoneyState.select_product.
PassedChecks ==
    /\ call.op = "select_product"
    /\ call.pre.state = "has_money"
    /\ Inventory_get_product(call.pre.stock, call.code) # NoProduct
    /\ Count(call.pre.stock, call.code) > 0
    /\ call.pre.balance >= Inventory_get_product(call.pre.stock, call.code).price

\* C28: a select_product that passes its three checks ends with the sale
\* made and one unit less in stock; in every has_money state dispense_product
\* succeeds for each product that has stock; an OutOfStockError of
\* select_product comes from the check, with the machine as it was; the
\* machine is never in dispensing with a balance other than 0.
C28_DispenseCannotFail ==
    /\ PassedChecks
          => /\ call.outcome = "ok"
             /\ Count(stock, call.code) = Count(call.pre.stock, call.code) - 1
    /\ \A code \in SelectCodes :
          LET product == Inventory_get_product(stock, code) IN
          (product # NoProduct /\ Inventory_has_stock(stock, product))
            => Inventory_dispense_product(stock, product).outcome = "ok"
    /\ (call.op = "select_product" /\ call.outcome = "OutOfStockError")
          => /\ Count(call.pre.stock, call.code) = 0
             /\ Machine = call.pre
    /\ ~(state = "dispensing" /\ balance # 0)

\* The last unit of a product has been sold.
C28_Witness ==
    /\ PassedChecks
    /\ call.outcome = "ok"
    /\ Count(call.pre.stock, call.code) = 1
    /\ Count(stock, call.code) = 0
    /\ state = "idle"

\* The last call found the machine in Dispensing.
CalledInDispensing ==
    /\ call.pre.state = "dispensing"
    /\ call.op \in {"insert_money", "select_product", "cancel"}

\* C29: insert_money of any amount, select_product of any code and cancel,
\* called while the machine is in Dispensing, raise InvalidStateError and
\* leave balance, revenue, inventory and state as they were.
C29_DispensingRejectsAll ==
    CalledInDispensing
      => /\ call.outcome = "InvalidStateError"
         /\ Machine = call.pre
         /\ state = "dispensing"

\* A cancel in Dispensing, with money in the machine, was refused.
C29_Witness ==
    /\ CalledInDispensing
    /\ call.op = "cancel"
    /\ call.outcome = "InvalidStateError"
    /\ balance > 0
    /\ state = "dispensing"

\* The last call was insert_money, dispatched to IdleState or HasMoneyState.
InsertCalled ==
    /\ call.op = "insert_money"
    /\ call.pre.state \in {"idle", "has_money"}

\* C30: insert_money rounds the amount half-up to 2 decimals before it tests
\* that it is positive: an amount that rounds to 0.00 raises ValueError and
\* changes nothing, so never takes the machine from Idle to HasBalance, and
\* every insert_money that succeeds makes the balance strictly greater.
C30_RoundingPrecedesComparison ==
    InsertCalled
      => /\ Quantize(call.amount) <= 0
               => /\ call.outcome = "ValueError"
                  /\ Machine = call.pre
         /\ (call.pre.state = "idle" /\ Quantize(call.amount) <= 0)
               => state = "idle"
         /\ call.outcome = "ok" => balance > call.pre.balance

\* C34: whenever the machine is Idle between operations its balance is 0.00,
\* so the assignment of IdleState.insert_money overwrites a balance of 0.00:
\* the balance after it is the rounded amount and no money inserted before
\* is lost.
C34_IdleHoldsNoMoney ==
    /\ state = "idle" => balance = 0
    /\ call.pre.state = "idle" => call.pre.balance = 0
    /\ (call.op = "insert_money" /\ call.pre.state = "idle"
          /\ call.outcome = "ok")
         => balance = call.pre.balance + Quantize(call.amount)

\* An insert accepted in the Idle state that followed a sale.
C34_Witness ==
    /\ call.op = "insert_money"
    /\ call.pre.state = "idle"
    /\ call.outcome = "ok"
    /\ call.pre.total_amount > 0
    /\ balance > 0

\* C37: the inventory holds one entry per code; an entry is never removed
\* nor its product replaced, so a code whose count is 0 gives OutOfStock and
\* not ProductNotFound; and the product that get_product and select_product
\* use for a code is the one of the first successful add_product of the
\* code, also after a re-stock with the same name and another price.
C37_OneImmutableEntryPerCode ==
    /\ \A c \in DOMAIN stock : stock[c].key.code = c
    /\ \A c \in DOMAIN call.pre.stock :
          /\ c \in DOMAIN stock
          /\ stock[c].key = call.pre.stock[c].key
    /\ \A c \in DOMAIN stock \ DOMAIN call.pre.stock :
          /\ call.op = "add_product"
          /\ call.outcome = "ok"
          /\ stock[c].key = call.product
    /\ \A c \in DOMAIN stock : Inventory_get_product(stock, c) = stock[c].key
    /\ (call.op = "select_product" /\ call.pre.state = "has_money"
          /\ call.code \in DOMAIN call.pre.stock)
         => /\ call.outcome # "ProductNotFoundError"
            /\ Count(call.pre.stock, call.code) = 0
                 => call.outcome = "OutOfStockError"
            /\ call.outcome = "ok"
                 => /\ call.ret[1] = call.pre.stock[call.code].key
                    /\ total_amount = call.pre.total_amount
                                        + call.pre.stock[call.code].key.price

\* A code was re-stocked with the same name and another price, and keeps
\* the product it was first added with.
C37_Witness ==
    /\ call.op = "add_product"
    /\ call.outcome = "ok"
    /\ call.code \in DOMAIN call.pre.stock
    /\ call.product.name = stock[call.code].key.name
    /\ call.product.price # stock[call.code].key.price
    /\ Count(stock, call.code) = Count(call.pre.stock, call.code) + call.quantity

\* The last call was a deposit.
DepositCalled == acall.op = "deposit"
\* The amount of the last call as the validators and strategies see it.
AmountSeen == ATM_to_decimal(acall.amount)

\* C38: the balance of every registered account is >= 0 after every call;
\* the amount of a successful withdrawal is a positive multiple of 10.00,
\* at most the balance before it and at most the withdraw limit; the amount
\* of a successful deposit is at least 0.01.
C38_BalanceNeverNegative ==
    /\ \A c \in DOMAIN accounts : accounts[c].balance >= 0
    /\ (WithdrawalCalled /\ acall.outcome = "ok")
         => /\ OnAccount
            /\ AmountSeen > 0
            /\ AmountSeen % MIN_WITHDRAWAL_AMOUNT = 0
            /\ AmountSeen <= acall.pre[acall.account_code].balance
            /\ AmountSeen <= acall.pre[acall.account_code].withdraw_limit
            /\ accounts[acall.account_code].balance
                 = acall.pre[acall.account_code].balance - AmountSeen
    /\ (DepositCalled /\ acall.outcome = "ok")
         => /\ OnAccount
            /\ AmountSeen >= MIN_DEPOSIT_AMOUNT
            /\ accounts[acall.account_code].balance
                 = acall.pre[acall.account_code].balance + AmountSeen

\* A withdrawal took the whole balance of an account.
C38_Witness ==
    /\ WithdrawalCalled
    /\ acall.outcome = "ok"
    /\ acall.pre[acall.account_code].balance > 0
    /\ accounts[acall.account_code].balance = 0

\* The last call was an exit_vehicle that returned a ticket and its fee.
ExitReturned == pcall.op = "exit_vehicle" /\ pcall.ret # NoTicket

\* The least whole number of hours that covers the seconds.
CeilHours(seconds) == (seconds + 3599) \div 3600

\* C33: the fee of a ticket with an exit time is the hourly rate times the
\* elapsed hours rounded up to the next whole hour, at least one hour; the
\* fee of a ticket without exit time is 0.
C33_FeeRoundsUp ==
    /\ ExitReturned
         => LET hours == CeilHours(tcall.exit_time - tcall.entry_time) IN
            tcall.fee = HOURLY_RATE * (IF hours > 1 THEN hours ELSE 1)
    /\ \A t \in DOMAIN tickets :
          ParkingTicket_calculate_fee(entry_time[t], NoTime, HOURLY_RATE) = 0

\* The last call of the single-level lot was open_ticket.
OpenCalled == scall.op = "open_ticket"
\* The spots of the lot that were available and of the size the vehicle of
\* the last call requires, before the call.
ExactSpots ==
    { s \in { scall.pre.spots[i] : i \in DOMAIN scall.pre.spots } :
        /\ scall.pre.is_available[s.obj]
        /\ s.size = VEHICLE_TYPE_TO_SPOT_SIZE(scall.vehicle.vehicle_type) }
\* open_ticket returned a ticket.
TicketOpened ==
    /\ OpenCalled
    /\ scall.outcome = "ok"
    /\ scall.ret # <<NoParkingTicket>>

\* C32: open_ticket gives a vehicle only a spot of the lot that was
\* available and of exactly the size its type requires, marks it unavailable
\* and records one open ticket; with no such spot it returns None and
\* changes nothing; for a vehicle with an open ticket it raises ValueError
\* and changes nothing.
C32_OpenTicketExactSize ==
    OpenCalled
      => LET plate == scall.vehicle.license_plate IN
         /\ plate \in DOMAIN scall.pre.open_tickets
              => scall.outcome = "ValueError" /\ PLot = scall.pre
         /\ (plate \notin DOMAIN scall.pre.open_tickets /\ ExactSpots = {})
              => /\ scall.outcome = "ok"
                 /\ scall.ret = <<NoParkingTicket>>
                 /\ PLot = scall.pre
         /\ (plate \notin DOMAIN scall.pre.open_tickets /\ ExactSpots # {})
              => /\ TicketOpened
                 /\ LET ticket == scall.ret[1] IN
                    /\ ticket.parking_spot \in ExactSpots
                    /\ ticket.vehicle = scall.vehicle
                    /\ ticket.finish_time = NoTime
                    /\ is_available
                         = [scall.pre.is_available EXCEPT
                              ![ticket.parking_spot.obj] = FALSE]
                    /\ DOMAIN open_tickets
                         = DOMAIN scall.pre.open_tickets \cup {plate}
                    /\ open_tickets[plate] = ticket
                    /\ \A p \in DOMAIN scall.pre.open_tickets :
                          open_tickets[p] = scall.pre.open_tickets[p]
                    /\ lot_spots = scall.pre.spots
                    /\ close_tickets = scall.pre.close_tickets

\* A motorcycle got no ticket while a regular spot of the lot was available.
C32_Witness ==
    /\ OpenCalled
    /\ scall.vehicle.vehicle_type = "MOTORCYCLE"
    /\ scall.outcome = "ok"
    /\ scall.ret = <<NoParkingTicket>>
    /\ \E i \in DOMAIN lot_spots :
          /\ lot_spots[i].size = "REGULAR"
          /\ is_available[lot_spots[i].obj]

\* The open tickets that reference the ParkingSpot object.
TicketsOn(spot) ==
    { p \in DOMAIN open_tickets : open_tickets[p].parking_spot.obj = spot.obj }
\* The last call of the single-level lot closed a ticket.
TicketClosed == scall.op = "close_ticket" /\ scall.outcome = "ok"

\* C39: no two open tickets reference spots with the same id; a spot of the
\* lot is unavailable exactly when one open ticket references it; and
\* close_ticket moves the ticket from open_tickets to the end of
\* close_tickets, where it occurs once, and makes its spot available.
C39_SpotExclusive ==
    /\ \A p, q \in DOMAIN open_tickets :
          p # q => open_tickets[p].parking_spot.id # open_tickets[q].parking_spot.id
    /\ \A i \in DOMAIN lot_spots :
          ~is_available[lot_spots[i].obj]
             <=> Cardinality(TicketsOn(lot_spots[i])) = 1
    /\ TicketClosed
         => LET plate == scall.vehicle.license_plate
                ticket == scall.ret[1]
            IN /\ plate \notin DOMAIN open_tickets
               /\ ticket.id = scall.pre.open_tickets[plate].id
               /\ close_tickets = Append(scall.pre.close_tickets, ticket)
               /\ Cardinality({ k \in DOMAIN close_tickets :
                                  close_tickets[k].id = ticket.id }) = 1
               /\ is_available[ticket.parking_spot.obj]

\* C35: the sum of the amounts accepted by insert_money, each rounded to 2
\* decimals, equals balance + lifetime revenue + the change returned by
\* sales + the refunds returned by cancel, after every operation.
C35_MoneyConserved ==
    ledger.inserted = balance + total_amount + ledger.change + ledger.refunds

\* Money was accepted, part of it refunded, part of it paid for a unit and
\* part of it returned as change.
C35_Witness ==
    /\ ledger.refunds > 0
    /\ ledger.change > 0
    /\ total_amount > 0
    /\ ledger.inserted = MaxInserted

\* The units of the code sold so far: those added less those in stock.
RECURSIVE SoldValue(_)
SoldValue(codes) ==
    IF codes = {} THEN 0
    ELSE LET c == CHOOSE x \in codes : TRUE IN
         stock[c].key.price * (ledger.added[c] - stock[c].qty)
           + SoldValue(codes \ {c})

Quiescent == \A t \in Callers : callers[t].pc = "out"

\* C31: with the operations of two callers interleaved statement by
\* statement, no unit is dispensed without its price being debited from a
\* sufficient balance (the change of every sale is >= 0), the balance and
\* every stock count stay >= 0, and the machine is not left in Dispensing
\* once every call has ended.
C31_NoInterleavedSale ==
    /\ \A t \in Callers :
          (callers[t].pc = "out" /\ callers[t].outcome = "ok")
             => callers[t].change >= 0
    /\ balance >= 0
    /\ \A c \in DOMAIN stock : stock[c].qty >= 0
    /\ Quiescent => state # "dispensing"

====
